---- MODULE Spec2Model ----
(***************************************************************************)
(* Job orchestration of the Wav2Lip video generation services.             *)
(*                                                                         *)
(*   - the enhanced service (server/Wav2Lip/enhanced_wav2lip.py): the      *)
(*     admission check, the active-job registry, the pipeline              *)
(*     download -> TTS -> render -> upload, cleanup, and the read-only     *)
(*     endpoints /jobs and /stats;                                         *)
(*   - the ElevenLabs/SadTalker service (server/Wav2Lip/app/main.py and    *)
(*     app/video_sadtalker.py).                                            *)
(*                                                                         *)
(* Flask serves every request on its own thread, so the handlers are       *)
(* modelled as interleaved steps.  One action is one stretch of handler    *)
(* code that touches the shared state (the registry, the results           *)
(* directory, the working directory) at most once, or one blocking call.   *)
(***************************************************************************)
EXTENDS Integers, Sequences, FiniteSets, TLC

\* ------------------------------------------------------------------------
\* Program constants and bounds
\* ------------------------------------------------------------------------

\* CONFIG['MAX_CONCURRENT_JOBS']
MAX_CONCURRENT_JOBS == 5

\* CONFIG['MAX_SCRIPT_LENGTH']
MAX_SCRIPT_LENGTH == 10000

\* CONFIG['MAX_FILE_SIZE'], in bytes
MAX_FILE_SIZE == 100 * 1024 * 1024

\* chunk_size of response.iter_content in download_file
CHUNK_SIZE == 8192

\* CONFIG['DEFAULT_VOICE_SPEED'] and the limits 0.5 and 2.0 of
\* validate_request.  Speeds are counted in hundredths.
DEFAULT_VOICE_SPEED == 100
MIN_VOICE_SPEED == 50
MAX_VOICE_SPEED == 200

\* POST /generate-video requests that arrive in a run of Spec
NumRequests == 2

\* POST /generate-video requests that arrive in a run of SpecAdmission:
\* enough to fill the registry and to have a request left over
BurstRequests == MAX_CONCURRENT_JOBS + 1

\* collaborator failures (avatar host, TTS backend, ffmpeg, S3) the
\* environment injects in a run of Spec
MaxFaults == 2

\* GET /jobs requests in a run of Spec
MaxReads == 1

\* Leading and trailing blanks of the texts that validate_request is given
MaxPad == 1

\* Longest language tag that validate_request is given
MaxLangLen == 3

\* Longest list of paths that cleanup_temp_files is called with on its own
MaxPathList == 2

\* Largest number of registry entries that the capacity check is given on
\* its own
MaxRegistry == 10

\* Full chunks that the largest body download_file is given has beyond
\* MAX_FILE_SIZE
MaxExtraChunks == 1

\* Session ids: uuid4() values, modelled as fresh numbers
Sids == 1..(BurstRequests + 1)

VARIABLES
    toArrive,      \* POST requests that have not arrived yet
    checked,       \* payload kind -> requests past the capacity check (line 366)
    validated,     \* requests past validate_request, before the insert
    rejected,      \* status code -> responses given before admission
    nextSid,       \* next fresh session id
    active_jobs,   \* wav2lip_service.active_jobs: session id -> entry
    jobs,          \* per admitted request: its position, its response and
                   \* what it did (log, removed: the status of its registry
                   \* entry when the entry was deleted)
    files,         \* files under CONFIG['TEMP_DIR']: <<session id, kind>>
    faults,        \* collaborator failures still to be injected
    s3_available,  \* EnhancedWav2LipService.s3_available
    toRead,        \* GET /jobs requests that have not arrived yet
    reader,        \* the dict iterator of the GET /jobs request in progress
    jobsResp,      \* status codes of the answered GET /jobs requests
    statsResp      \* status code of the last GET /stats, 0 when none

\* The enhanced service
svcVars == <<toArrive, checked, validated, rejected, nextSid, active_jobs,
             jobs, files, faults, s3_available, toRead, reader, jobsResp,
             statsResp>>

VARIABLES
    appToArrive,   \* POST requests to app/main.py that have not arrived yet
    appRejected,   \* status code -> responses given before a job exists
    appNext,       \* next fresh session id of app/main.py
    appJobs,       \* per job of app/main.py: its position and locals
    appFiles,      \* files written by app/main.py: [dir, job, kind, src]
    results,       \* videos in the sadtalker_results directories
    voices,        \* voices registered at the cloning provider
    cwd,           \* the working directory of the app/main.py process
    outDirs,       \* directories under which static/generated exists
    appFaults,     \* collaborator failures still to be injected
    sadtalker_installed   \* SadTalker/inference.py exists

\* The ElevenLabs/SadTalker service
appVars == <<appToArrive, appRejected, appNext, appJobs, appFiles, results,
             voices, cwd, outDirs, appFaults, sadtalker_installed>>

VARIABLES
    pool,          \* the request bodies that clients send to POST
                   \* /generate-video of the enhanced service in this run
    call           \* a function of the service called on its own: what it
                   \* is called with and what it gave

vars == <<svcVars, appVars, pool, call>>

\* ------------------------------------------------------------------------
\* Helpers
\* ------------------------------------------------------------------------

Min(S) == CHOOSE x \in S : \A y \in S : x <= y

\* del d[k]
DelKey(d, k) == [x \in DOMAIN d \ {k} |-> d[x]]

\* d[k] = v for a new key k
PutKey(d, k, v) == [x \in DOMAIN d \cup {k} |-> IF x = k THEN v ELSE d[x]]

\* len(wav2lip_service.active_jobs)
ActiveCount == Cardinality(DOMAIN active_jobs)

\* avatar_path named after the time of the request alone, without the
\* session id
avatar_path_shared(sid) == <<0, "avatar">>

\* The scratch paths of one job: avatar_path, audio_path, video_path
avatar_path(sid) == <<sid, "avatar">>
audio_path(sid) == <<sid, "audio">>
video_path(sid) == <<sid, "video">>

\* temp_audio = output_path + '_temp.mp3' in generate_tts_audio
temp_audio(sid) == <<sid, "audio_temp">>

\* temp_files after temp_files.extend([avatar_path, audio_path, video_path])
temp_files(sid) == <<avatar_path(sid), audio_path(sid), video_path(sid)>>

\* The paths in a list of paths
Paths(list) == {list[i] : i \in DOMAIN list}

\* os.path.exists(file_path)
os_path_exists(fs, p) == p \in fs

\* os.remove(file_path): FileNotFoundError when there is no such file
os_remove(fs, p) ==
    IF p \in fs THEN [fs |-> fs \ {p}, raised |-> FALSE]
                ELSE [fs |-> fs, raised |-> TRUE]

\* One turn of the loop of cleanup_temp_files: the try block
RemoveIfExists(fs, p) ==
    IF os_path_exists(fs, p) THEN os_remove(fs, p)
                             ELSE [fs |-> fs, raised |-> FALSE]

\* cleanup_temp_files without the os.path.exists test and without the try
\* block: the first os.remove that raises ends the call
RECURSIVE cleanup_temp_files_unguarded(_, _)
cleanup_temp_files_unguarded(fs, paths) ==
    IF paths = <<>> THEN [fs |-> fs, raised |-> FALSE]
    ELSE LET r == os_remove(fs, Head(paths))
         IN IF r.raised THEN r
            ELSE cleanup_temp_files_unguarded(r.fs, Tail(paths))

\* cleanup_temp_files: for each listed path in turn, the file is removed if
\* it exists; an exception of a turn is caught and logged as a warning, so
\* the call itself never raises
RECURSIVE cleanup_temp_files(_, _)
cleanup_temp_files(fs, paths) ==
    IF paths = <<>> THEN [fs |-> fs, raised |-> FALSE]
    ELSE LET r == RemoveIfExists(fs, Head(paths))
         IN cleanup_temp_files(r.fs, Tail(paths))

\* ------------------------------------------------------------------------
\* Request bodies.  A text is its sequence of characters; a JSON value is
\* its type t with the text s of a string and the number n of a number,
\* "absent" for a key the object does not have.
\* ------------------------------------------------------------------------

Absent == [t |-> "absent", s |-> <<>>, n |-> 0]
Null == [t |-> "null", s |-> <<>>, n |-> 0]
Text(s) == [t |-> "str", s |-> s, n |-> 0]
Number(n) == [t |-> "num", s |-> <<>>, n |-> n]

\* voice_options: an object with its language and speed, or another value
Options(l, sp) == [t |-> "obj", language |-> l, speed |-> sp]
NoOptions == [t |-> "absent", language |-> Absent, speed |-> Absent]
NullOptions == [t |-> "null", language |-> Absent, speed |-> Absent]
TextOptions == [t |-> "str", language |-> Absent, speed |-> Absent]

\* What request.get_json() gives: a non-empty object, a list, or a falsy
\* value (None, {}, [], 0, "")
Body(script, url, vo) ==
    [t |-> "obj", script |-> script, avatar_url |-> url, voice_options |-> vo]
ListJson ==
    [t |-> "list", script |-> Absent, avatar_url |-> Absent,
     voice_options |-> NoOptions]
NoJson ==
    [t |-> "none", script |-> Absent, avatar_url |-> Absent,
     voice_options |-> NoOptions]

\* dict.get(key, default)
Get(v, default) == IF v.t = "absent" THEN default ELSE v

\* c * n
Repeat(c, n) == [i \in 1..n |-> c]

\* str.strip(): the text between its first and its last non-blank character
Strip(s) ==
    IF \A i \in 1..Len(s) : s[i] = " " THEN <<>>
    ELSE LET first == CHOOSE i \in 1..Len(s) :
                          s[i] # " " /\ \A j \in 1..(i - 1) : s[j] = " "
             last  == CHOOSE i \in 1..Len(s) :
                          s[i] # " " /\ \A j \in (i + 1)..Len(s) : s[j] = " "
         IN SubSeq(s, first, last)

\* str.startswith(prefix)
StartsWith(s, prefix) ==
    Len(s) >= Len(prefix) /\ SubSeq(s, 1, Len(prefix)) = prefix

\* str.split(sep)[0]: the text before the first sep, all of it without one
SplitFirst(s, sep) ==
    IF \A i \in 1..Len(s) : s[i] # sep THEN s
    ELSE SubSeq(s, 1, Min({i \in 1..Len(s) : s[i] = sep}) - 1)

UpperCase == <<"A", "B", "C", "D", "E", "F", "G", "H", "I", "J", "K", "L", "M",
               "N", "O", "P", "Q", "R", "S", "T", "U", "V", "W", "X", "Y", "Z">>
LowerCase == <<"a", "b", "c", "d", "e", "f", "g", "h", "i", "j", "k", "l", "m",
               "n", "o", "p", "q", "r", "s", "t", "u", "v", "w", "x", "y", "z">>

\* str.lower()
Lower(s) ==
    [i \in 1..Len(s) |->
        IF \E k \in 1..26 : UpperCase[k] = s[i]
        THEN LowerCase[CHOOSE k \in 1..26 : UpperCase[k] = s[i]]
        ELSE s[i]]

\* CONFIG['SUPPORTED_LANGUAGES']
SUPPORTED_LANGUAGES ==
    {<<"e", "n">>, <<"e", "s">>, <<"f", "r">>, <<"d", "e">>, <<"i", "t">>,
     <<"p", "t">>, <<"r", "u">>, <<"j", "a">>, <<"k", "o">>, <<"z", "h">>}

HttpScheme == <<"h", "t", "t", "p", ":", "/", "/">>
HttpsScheme == <<"h", "t", "t", "p", "s", ":", "/", "/">>

\* The test of the avatar URL left out
IsHttpUrl_NotTested(avatar_url) == TRUE

\* avatar_url.startswith('http://') or avatar_url.startswith('https://')
IsHttpUrl(avatar_url) ==
    StartsWith(avatar_url, HttpScheme) \/ StartsWith(avatar_url, HttpsScheme)

\* What validate_request gives: (True, ""), (False, message), or an
\* exception that it does not catch.  n is the number the message names.
Accepted == [ret |-> "valid", msg |-> "", n |-> 0]
Rejected(msg, n) == [ret |-> "invalid", msg |-> msg, n |-> n]
Raised(exc) == [ret |-> "raised", msg |-> exc, n |-> 0]

\* The test of the speed with the limits themselves left out
SpeedInRange_Open(speed) == MIN_VOICE_SPEED < speed /\ speed < MAX_VOICE_SPEED

\* 0.5 <= speed <= 2.0
SpeedInRange(speed) == MIN_VOICE_SPEED <= speed /\ speed <= MAX_VOICE_SPEED

\* The test of the length with the limit itself left out
TooLong_AtLimit(script) == Len(script) >= MAX_SCRIPT_LENGTH

\* len(script) > CONFIG['MAX_SCRIPT_LENGTH']
TooLong(script) == Len(script) > MAX_SCRIPT_LENGTH

\* language.split('-')[0] without .lower()
lang_code_as_given(language) == SplitFirst(language, "-")

\* lang_code = language.split('-')[0].lower()
lang_code(language) == Lower(SplitFirst(language, "-"))

\* Lines 78-94 of validate_request: the avatar URL, then the language and
\* the speed of voice_options
validate_options(avatar_url, vo) ==
    IF avatar_url = <<>> THEN Rejected("Avatar URL is required", 0)
    ELSE IF ~IsHttpUrl(avatar_url)
    THEN Rejected("Avatar URL must be a valid HTTP/HTTPS URL", 0)
    ELSE IF vo.t \notin {"obj", "absent"} THEN Raised("AttributeError")
    ELSE LET language == Get(vo.language, Text(<<"e", "n">>))
             speed == Get(vo.speed, Number(DEFAULT_VOICE_SPEED))
         IN IF language.t # "str" THEN Raised("AttributeError")
            ELSE IF lang_code(language.s) \notin SUPPORTED_LANGUAGES
            THEN Rejected("Language not supported", 0)
            ELSE IF speed.t # "num" THEN Raised("TypeError")
            ELSE IF ~SpeedInRange(speed.n)
            THEN Rejected("Voice speed must be between 0.5 and 2.0", 0)
            ELSE Accepted

\* validate_request.  .get of a value that is no object, .strip and .split
\* of a value that is no text and <= of a value that is no number raise.
validate_request(data) ==
    IF data.t # "obj" THEN Raised("AttributeError")
    ELSE LET script_v == Get(data.script, Text(<<>>))
             avatar_v == Get(data.avatar_url, Text(<<>>))
         IN IF script_v.t # "str" \/ avatar_v.t # "str"
            THEN Raised("AttributeError")
            ELSE LET script == Strip(script_v.s)
                 IN IF script = <<>>
                    THEN Rejected("Script text is required", 0)
                    ELSE IF TooLong(script)
                    THEN Rejected("Script too long (max %d characters)",
                                  MAX_SCRIPT_LENGTH)
                    ELSE validate_options(Strip(avatar_v.s),
                                          data.voice_options)

\* A request body that validate_request accepts
OkScript == Text(<<"h", "i">>)
OkUrl == Text(HttpsScheme \o <<"x">>)
OkBody == Body(OkScript, OkUrl, NoOptions)

\* The request bodies of a run of Spec: one that validate_request accepts,
\* one without script, which it rejects, and one for which
\* request.get_json() is falsy
Payloads == {OkBody, Body(Absent, OkUrl, NoOptions), NoJson}

\* ------------------------------------------------------------------------
\* Collaborator calls of EnhancedWav2LipService.  Each takes the files
\* before the call, the job and the outcome the environment chose, and
\* gives the return value and the files after the call.
\* ------------------------------------------------------------------------

\* Outcomes of a call that the environment can make fail: failures are
\* drawn from the fault budget
WithFaults(good, bad) == IF faults > 0 THEN good \cup bad ELSE good

IsFault(o) == o \notin {"ok", "input_missing"}

\* download_file: requests.get(..., timeout=30) and the streaming write.
\*   "fail"         the request failed, timed out or answered an error
\*                  status, or content-length was too large: nothing written
\*   "fail_partial" the stream failed or grew too large after open()
DownloadOutcomes == WithFaults({"ok"}, {"fail", "fail_partial"})

download_file(fs, sid, o) ==
    CASE o = "ok"           -> [ret |-> TRUE,  fs |-> fs \cup {avatar_path(sid)}]
      [] o = "fail_partial" -> [ret |-> FALSE, fs |-> fs \cup {avatar_path(sid)}]
      [] OTHER              -> [ret |-> FALSE, fs |-> fs]

\* generate_tts_audio: gTTS(...).save(temp_audio), then ffmpeg writes
\* output_path from temp_audio and temp_audio is removed.
\*   "ok"             both passes succeeded
\*   "convert_failed" _adjust_audio_speed / _convert_audio_format returned
\*                    False: its result is not looked at
\*   "save_failed"    tts.save raised after it had opened temp_audio
\*   "init_failed"    the import or the gTTS constructor raised
\*   "hang"           tts.save never returns (gTTS is given no timeout)
TtsOutcomes ==
    WithFaults({"ok"}, {"convert_failed", "save_failed", "init_failed", "hang"})

generate_tts_audio(fs, sid, o) ==
    CASE o = "ok"             -> [ret |-> TRUE,  fs |-> fs \cup {audio_path(sid)}]
      [] o = "convert_failed" -> [ret |-> TRUE,  fs |-> fs]
      [] o = "save_failed"    -> [ret |-> FALSE, fs |-> fs \cup {temp_audio(sid)}]
      [] OTHER                -> [ret |-> FALSE, fs |-> fs]

\* generate_enhanced_video: ffmpeg with timeout=120.
\*   "input_missing"   an input file does not exist: ffmpeg exits non-zero
\*   "absent"          there is no ffmpeg: subprocess.run raises
\*   "fail"            ffmpeg exited non-zero
\*   "fail_partial"    the same after it had started to write output_path
\*   "timeout"         TimeoutExpired: ffmpeg was killed
\*   "timeout_partial" the same after it had started to write output_path
RenderOutcomes(fs, sid) ==
    IF {avatar_path(sid), audio_path(sid)} \subseteq fs
    THEN WithFaults({"ok"}, {"absent", "fail", "fail_partial", "timeout",
                             "timeout_partial"})
    ELSE {"input_missing"}

generate_enhanced_video(fs, sid, o) ==
    CASE o = "ok" -> [ret |-> TRUE,  fs |-> fs \cup {video_path(sid)}]
      [] o \in {"fail_partial", "timeout_partial"} ->
            [ret |-> FALSE, fs |-> fs \cup {video_path(sid)}]
      [] OTHER -> [ret |-> FALSE, fs |-> fs]

\* upload_to_s3: the mock URL when S3 is not available, else the URL
\* after upload_file, or None when upload_file raised
\* The outcome of the two calls, of the video first: "ok", or the upload
\* that failed
UploadOutcomes ==
    IF s3_available
    THEN WithFaults({"ok"}, {"video_failed", "audio_failed", "both_failed"})
    ELSE {"ok"}

VideoUploadOk(o) == o \in {"ok", "audio_failed"}
AudioUploadOk(o) == o \in {"ok", "video_failed"}

\* upload_to_s3 without the mock URL of an unavailable bucket
upload_to_s3_NoMock(ok) == IF s3_available /\ ok THEN "url" ELSE "none"

upload_to_s3(ok) ==
    IF ~s3_available THEN "mock_url" ELSE IF ok THEN "url" ELSE "none"

\* Durations are numbers in thousandths, as the "duration" of a body is a
\* float.  What ffprobe does with the audio of a job:
\*   "ok"        returncode 0 and the duration on stdout
\*   "no_number" returncode 0 and no number on stdout (float() raises)
\*   "status"    another returncode
\*   "raise"     ffprobe is absent or ran for longer than 10 seconds
ProbeOutcomes == {"ok", "no_number", "status", "raise"}

\* The lengths, in thousandths of a second, of the audio of a job
AudioLengths == {400, 5000, 12345, 60000}

\* The length of the audio that gTTS makes of the script of the requests
\* of a run of the service
SpokenLength == 400

\* ffprobe as a collaborator of a job: it works, or it is absent
JobProbeOutcomes == WithFaults({"ok"}, {"raise"})

\* enhanced_wav2lip.py get_audio_duration: the probed length, or 5.0
get_audio_duration(probe, audio) == IF probe = "ok" THEN audio ELSE 5000

\* ------------------------------------------------------------------------
\* POST /generate-video of the enhanced service
\* ------------------------------------------------------------------------

NoBody ==
    [video_url |-> "none", audio_url |-> "none", duration |-> 0,
     session_id |-> 0]

\* CapacityCheck with the check moved behind the validation
CapacityCheck_AfterValidation(p) ==
    /\ toArrive > 0
    /\ toArrive' = toArrive - 1
    /\ IF p.t = "none" \/ validate_request(p).ret # "valid"
       THEN /\ rejected' = [rejected EXCEPT ![400] = @ + 1]
            /\ checked' = checked
       ELSE IF ActiveCount >= MAX_CONCURRENT_JOBS
       THEN /\ rejected' = [rejected EXCEPT ![429] = @ + 1]
            /\ checked' = checked
       ELSE /\ checked' = [checked EXCEPT ![p] = @ + 1]
            /\ rejected' = rejected
    /\ UNCHANGED <<validated, nextSid, active_jobs, jobs, files, faults,
                   s3_available, toRead, reader, jobsResp, statsResp>>
    /\ UNCHANGED <<appVars, pool, call>>

\* A new request: the capacity check of line 366, before anything else
CapacityCheck(p) ==
    /\ toArrive > 0
    /\ toArrive' = toArrive - 1
    /\ IF ActiveCount >= MAX_CONCURRENT_JOBS
       THEN /\ rejected' = [rejected EXCEPT ![429] = @ + 1]
            /\ checked' = checked
       ELSE /\ checked' = [checked EXCEPT ![p] = @ + 1]
            /\ rejected' = rejected
    /\ UNCHANGED <<validated, nextSid, active_jobs, jobs, files, faults,
                   s3_available, toRead, reader, jobsResp, statsResp>>
    /\ UNCHANGED <<appVars, pool, call>>

\* The status of the response when the request ends at lines 373-380, 0
\* when it goes on: BadRequest becomes a 400 (lines 468-470), any other
\* exception a 500 (lines 471-473)
ValidationStatus(p) ==
    IF p.t = "none" THEN 400
    ELSE LET r == validate_request(p)
         IN CASE r.ret = "valid"   -> 0
              [] r.ret = "invalid" -> 400
              [] OTHER             -> 500

\* request.get_json() and validate_request
ParseValidate(p) ==
    /\ p \in pool
    /\ checked[p] > 0
    /\ checked' = [checked EXCEPT ![p] = @ - 1]
    /\ IF ValidationStatus(p) = 0
       THEN /\ validated' = validated + 1
            /\ rejected' = rejected
       ELSE /\ rejected' = [rejected EXCEPT ![ValidationStatus(p)] = @ + 1]
            /\ validated' = validated
    /\ UNCHANGED <<toArrive, nextSid, active_jobs, jobs, files, faults,
                   s3_available, toRead, reader, jobsResp, statsResp>>
    /\ UNCHANGED <<appVars, pool, call>>

\* The registry entry of a new job (lines 394-398)
NewEntry == [status |-> "processing"]

\* session_id = str(uuid.uuid4()) and the insert into active_jobs
Register ==
    /\ validated > 0
    /\ nextSid \in Sids
    /\ validated' = validated - 1
    /\ nextSid' = nextSid + 1
    /\ active_jobs' = PutKey(active_jobs, nextSid, NewEntry)
    /\ jobs' = PutKey(jobs, nextSid,
                      [pc |-> "download", resp |-> 0, log |-> <<>>,
                       body |-> NoBody, removed |-> "none"])
    /\ UNCHANGED <<toArrive, checked, rejected, files, faults, s3_available,
                   toRead, reader, jobsResp, statsResp>>
    /\ UNCHANGED <<appVars, pool, call>>

\* What the step logs about an engine that could not do its work: that it
\* is absent, or that it ran into the timeout
Cause(o) == IF o \in {"absent", "timeout", "timeout_partial"} THEN o ELSE "none"

\* One entry of a job's log: a step that was invoked, what it reported, and
\* the cause it logged
Invoked(sid, step, ret, o) ==
    Append(jobs[sid].log, [step |-> step, ret |-> ret, cause |-> Cause(o)])

Reported(ok) == IF ok THEN "ok" ELSE "failed"

\* The job goes on to its next step
Proceed(sid, fs, lg, next) ==
    /\ files' = fs
    /\ jobs' = [jobs EXCEPT ![sid].pc = next, ![sid].log = lg]
    /\ active_jobs' = active_jobs

\* FailJob without the removal from the registry
FailJob_KeepEntry(sid, fs, lg) ==
    /\ files' = cleanup_temp_files(fs, temp_files(sid)).fs
    /\ active_jobs' = active_jobs
    /\ jobs' = [jobs EXCEPT ![sid].pc = "done", ![sid].resp = 500,
                            ![sid].log = lg]

\* The except branch of lines 461-466 and the 500 of lines 471-473
FailJob(sid, fs, lg) ==
    /\ files' = cleanup_temp_files(fs, temp_files(sid)).fs
    /\ active_jobs' = IF sid \in DOMAIN active_jobs
                      THEN DelKey(active_jobs, sid) ELSE active_jobs
    /\ jobs' = [jobs EXCEPT ![sid].pc = "done", ![sid].resp = 500,
                            ![sid].log = lg,
                            ![sid].removed =
                                IF sid \in DOMAIN active_jobs
                                THEN active_jobs[sid].status ELSE "none"]

\* FinishJob without the removal from the registry
FinishJob_KeepEntry(sid, fs, lg, v, a, d) ==
    /\ files' = cleanup_temp_files(fs, temp_files(sid)).fs
    /\ active_jobs' = active_jobs
    /\ jobs' = [jobs EXCEPT ![sid].pc = "done", ![sid].resp = 200,
                            ![sid].log = lg,
                            ![sid].body = [video_url |-> v, audio_url |-> a,
                                           duration |-> d, session_id |-> sid]]

\* Lines 435-459: cleanup, removal from the registry, the success body
FinishJob(sid, fs, lg, v, a, d) ==
    /\ files' = cleanup_temp_files(fs, temp_files(sid)).fs
    /\ active_jobs' = DelKey(active_jobs, sid)
    /\ jobs' = [jobs EXCEPT ![sid].pc = "done", ![sid].resp = 200,
                            ![sid].log = lg,
                            ![sid].body = [video_url |-> v, audio_url |-> a,
                                           duration |-> d, session_id |-> sid],
                            ![sid].removed = active_jobs[sid].status]

\* The rest of the service during a step of a job in which n collaborators
\* failed
StepBy(n) ==
    /\ n <= faults
    /\ faults' = faults - n
    /\ UNCHANGED <<toArrive, checked, validated, rejected, nextSid,
                   s3_available, toRead, reader, jobsResp, statsResp>>
    /\ UNCHANGED <<appVars, pool, call>>

Step(sid, o) == StepBy(IF IsFault(o) THEN 1 ELSE 0)

\* Download with the result of download_file not looked at
Download_Unchecked(sid) ==
    /\ sid \in DOMAIN jobs
    /\ jobs[sid].pc = "download"
    /\ \E o \in DownloadOutcomes :
         LET r  == download_file(files, sid, o)
             lg == Invoked(sid, "download", Reported(r.ret), o)
         IN /\ Proceed(sid, r.fs, lg, "tts")
            /\ Step(sid, o)

\* Lines 410-412
Download(sid) ==
    /\ sid \in DOMAIN jobs
    /\ jobs[sid].pc = "download"
    /\ \E o \in DownloadOutcomes :
         LET r  == download_file(files, sid, o)
             lg == Invoked(sid, "download", Reported(r.ret), o)
         IN /\ IF r.ret THEN Proceed(sid, r.fs, lg, "tts")
                        ELSE FailJob(sid, r.fs, lg)
            /\ Step(sid, o)

\* Lines 414-416
Tts(sid) ==
    /\ sid \in DOMAIN jobs
    /\ jobs[sid].pc = "tts"
    /\ \E o \in TtsOutcomes :
         LET r  == generate_tts_audio(files, sid, o)
             lg == Invoked(sid, "tts", Reported(r.ret), o)
         IN /\ IF o = "hang"
               THEN Proceed(sid, files \cup {temp_audio(sid)},
                            Invoked(sid, "tts", "blocked", o), "tts_blocked")
               ELSE IF r.ret THEN Proceed(sid, r.fs, lg, "render")
                             ELSE FailJob(sid, r.fs, lg)
            /\ Step(sid, o)

\* Lines 418-420
Render(sid) ==
    /\ sid \in DOMAIN jobs
    /\ jobs[sid].pc = "render"
    /\ \E o \in RenderOutcomes(files, sid) :
         LET r  == generate_enhanced_video(files, sid, o)
             lg == Invoked(sid, "render", Reported(r.ret), o)
         IN /\ IF r.ret THEN Proceed(sid, r.fs, lg, "upload")
                        ELSE FailJob(sid, r.fs, lg)
            /\ Step(sid, o)

\* Lines 422-459: the duration probe, both uploads, then the end of the job
Upload(sid) ==
    /\ sid \in DOMAIN jobs
    /\ jobs[sid].pc = "upload"
    /\ \E p \in JobProbeOutcomes, o \in UploadOutcomes :
         LET d  == get_audio_duration(p, SpokenLength)
             v  == upload_to_s3(VideoUploadOk(o))
             a  == upload_to_s3(AudioUploadOk(o))
             lg == Invoked(sid, "upload", Reported(v # "none" /\ a # "none"), o)
         IN /\ IF v = "none" \/ a = "none"
               THEN FailJob(sid, files, lg)
               ELSE FinishJob(sid, files, lg, v, a, d)
            /\ StepBy((IF p = "ok" THEN 0 ELSE 1) + (IF IsFault(o) THEN 1 ELSE 0))

\* ------------------------------------------------------------------------
\* GET /jobs and GET /stats
\* ------------------------------------------------------------------------

IdleReader == [pc |-> "idle", used |-> 0, last |-> 0, snap |-> {}]

\* for ... in wav2lip_service.active_jobs.items(): the iterator is created
JobsStart ==
    /\ toRead > 0
    /\ reader.pc = "idle"
    /\ toRead' = toRead - 1
    /\ reader' = [pc |-> "iter", used |-> ActiveCount, last |-> 0, snap |-> {}]
    /\ UNCHANGED <<toArrive, checked, validated, rejected, nextSid, active_jobs,
                   jobs, files, faults, s3_available, jobsResp, statsResp>>
    /\ UNCHANGED <<appVars, pool, call>>

\* One step of the loop of lines 479-484.  The dict iterator raises
\* RuntimeError when the dict's size differs from the size at its creation
\* ("changed size during iteration") or when it finds an entry after it has
\* given as many as that size ("keys changed during iteration"); the view
\* does not catch it, so the request is answered 500.  Entries are visited
\* in insertion order, which is the order of the session numbers.
JobsNext ==
    /\ reader.pc = "iter"
    /\ LET rest == {k \in DOMAIN active_jobs : k > reader.last}
       IN IF ActiveCount # reader.used
             \/ (rest # {} /\ Cardinality(reader.snap) = reader.used)
          THEN /\ jobsResp' = Append(jobsResp, 500)
               /\ reader' = IdleReader
          ELSE IF rest = {}
          THEN /\ jobsResp' = Append(jobsResp, 200)
               /\ reader' = IdleReader
          ELSE /\ reader' = [reader EXCEPT !.last = Min(rest),
                                           !.snap = @ \cup {Min(rest)}]
               /\ jobsResp' = jobsResp
    /\ UNCHANGED <<toArrive, checked, validated, rejected, nextSid, active_jobs,
                   jobs, files, faults, s3_available, toRead, statsResp>>
    /\ UNCHANGED <<appVars, pool, call>>

\* get_stats: len(active_jobs) is one atomic read and _get_directory_size
\* swallows every exception
GetStats ==
    /\ statsResp' = 200
    /\ UNCHANGED <<toArrive, checked, validated, rejected, nextSid, active_jobs,
                   jobs, files, faults, s3_available, toRead, reader, jobsResp>>
    /\ UNCHANGED <<appVars, pool, call>>

\* ------------------------------------------------------------------------
\* The ElevenLabs/SadTalker service: app/main.py, app/video_sadtalker.py
\* ------------------------------------------------------------------------

\* POST /generate-video requests that arrive in a run of SpecApp
NumAppJobs == 2

\* Requests to app/main.py in a run of SpecAppSolo
NumSoloJobs == 1

\* DELETE /cleanup-voice requests in a run of SpecVoice
MaxDeletes == 1

\* collaborator failures the environment injects in a run of SpecApp
MaxAppFaults == 2

AppSids == 1..(NumAppJobs + 1)

\* Request bodies: script and avatar_url only, with voice_sample_url, with
\* script or avatar_url missing, and a body for which get_json() is None
AppPayloads == {"plain", "with_sample", "missing", "nojson"}

\* The paths of app/main.py are relative ("static/generated/<id>.jpg"), so
\* a file is known by the directory the path was resolved in: "app", where
\* the process started, or "sadtalker", where the renderer changes to; the
\* voice sample is a NamedTemporaryFile, in "tmp".  src is the job whose
\* image and audio a video was rendered from, 0 for the placeholder video.
AppFile(d, j, kind, src) == [dir |-> d, job |-> j, kind |-> kind, src |-> src]

SamePath(f, d, j, kind) == f.dir = d /\ f.job = j /\ f.kind = kind

\* os.path.exists
Exists(fs, d, j, kind) == \E f \in fs : SamePath(f, d, j, kind)

\* os.remove
Remove(fs, d, j, kind) == {f \in fs : ~SamePath(f, d, j, kind)}

\* open(path, 'wb') and write
Write(fs, d, j, kind, src) == Remove(fs, d, j, kind) \cup {AppFile(d, j, kind, src)}

AppWithFaults(good, bad) == IF appFaults > 0 THEN good \cup bad ELSE good

AppIsFault(o) == o \notin {"ok", "ok_two", "skip", "cloned", "input_missing"}

FaultCount(os) == Cardinality({o \in os : AppIsFault(o)})

AppFrame == UNCHANGED <<svcVars, pool, call>>

\* The "error" of a response body: a text, and the path of a file of the
\* job where the text names one
NoPath == [job |-> 0, kind |-> "none"]
NoErr == [msg |-> "none", path |-> NoPath]
ErrText(msg) == [msg |-> msg, path |-> NoPath]

\* str(e) of the FileNotFoundError of open(path, 'wb'):
\* "[Errno 2] No such file or directory: '<path>'"
ErrNoFile(j, kind) ==
    [msg |-> "No such file or directory", path |-> [job |-> j, kind |-> kind]]

NewAppJob(p) ==
    [pc |-> "download", resp |-> 0, sample |-> (p = "with_sample"),
     base |-> "none", old_cwd |-> "none", found |-> {}, gen |-> FALSE,
     s3_video |-> FALSE, s3_audio |-> FALSE, avatar |-> "none",
     clone |-> "none", voice |-> "none", err |-> NoErr]

\* main.py lines 21-35 and 101-103: the body is read; a missing script or
\* avatar_url is answered 400; data.get on None raises, which the outer
\* except turns into a 500; otherwise the session id and the paths are made
AppReceive(p) ==
    /\ appToArrive > 0
    /\ appNext \in AppSids
    /\ appToArrive' = appToArrive - 1
    /\ CASE p = "nojson" ->
              /\ appRejected' = [appRejected EXCEPT ![500] = @ + 1]
              /\ UNCHANGED <<appNext, appJobs>>
         [] p = "missing" ->
              /\ appRejected' = [appRejected EXCEPT ![400] = @ + 1]
              /\ UNCHANGED <<appNext, appJobs>>
         [] OTHER ->
              /\ appJobs' = PutKey(appJobs, appNext, NewAppJob(p))
              /\ appNext' = appNext + 1
              /\ appRejected' = appRejected
    /\ UNCHANGED <<appFiles, results, voices, cwd, outDirs, appFaults,
                   sadtalker_installed>>
    /\ AppFrame

\* main.py lines 101-103: an exception ends the job with a 500 and its
\* text as the error; nothing is removed
AppRaise(j, e) ==
    [appJobs EXCEPT ![j].pc = "done", ![j].resp = 500, ![j].err = e]

\* requests.get(avatar_url) has no timeout and its status is not looked at.
\*   "ok"         a response with a success status
\*   "http_error" a response with another status (404, 500, ...): .content
\*                is the body of the error response
\*   "raise"      ConnectionError or another exception of requests
\*   "hang"       the host never answers
AppDownloadOutcomes == AppWithFaults({"ok"}, {"http_error", "raise", "hang"})

\* main.py lines 37-41: the avatar is fetched and written to image_path
AppDownload(j) ==
    /\ j \in DOMAIN appJobs
    /\ appJobs[j].pc = "download"
    /\ \E o \in AppDownloadOutcomes :
         /\ CASE o = "hang" ->
                   /\ appJobs' = [appJobs EXCEPT ![j].pc = "blocked",
                                                  ![j].avatar = o]
                   /\ appFiles' = appFiles
              [] o \in {"ok", "http_error"} /\ cwd \in outDirs ->
                   /\ appJobs' = [appJobs EXCEPT ![j].pc = "tts",
                                                  ![j].avatar = o]
                   /\ appFiles' = Write(appFiles, cwd, j, "image", j)
              [] OTHER ->
                   /\ appJobs' =
                        [AppRaise(j, IF o = "raise"
                                     THEN ErrText("requests exception")
                                     ELSE ErrNoFile(j, "image"))
                           EXCEPT ![j].avatar = o]
                   /\ appFiles' = appFiles
         /\ appFaults' = appFaults - FaultCount({o})
    /\ UNCHANGED <<appToArrive, appRejected, appNext, results, voices, cwd,
                   outDirs, sadtalker_installed>>
    /\ AppFrame

\* What happens in clone_voice_from_sample (main.py lines 105-159):
\*   "cloned"        the provider answered 200 with a voice id
\*   "rejected"      the provider answered another status
\*   "no_key"        ELEVENLABS_API_KEY is not set
\*   "sample_status" the download of the sample answered another status
\*                   than 200
\*   "sample_raised" requests.get raised
\*   "post_raised"   requests.post raised after the sample file was written
CloneFailures ==
    {"rejected", "no_key", "sample_status", "sample_raised", "post_raised"}

CloneOutcomes(j) ==
    IF appJobs[j].sample THEN AppWithFaults({"cloned"}, CloneFailures)
                         ELSE {"skip"}

\* What clone_voice_from_sample gives: the voice id (0 for None), or an
\* exception, with the files and the voices of the provider afterwards
CloneResult(id, raised, fs, vs) ==
    [voice_id |-> id, raised |-> raised, fs |-> fs, voices |-> vs]

\* clone_voice_from_sample without its try block
clone_voice_from_sample_uncaught(fs, vs, j, c) ==
    CASE c = "cloned"        -> CloneResult(j, FALSE, fs, vs \cup {j})
      [] c = "post_raised"   ->
            CloneResult(0, TRUE, Write(fs, "tmp", j, "sample", j), vs)
      [] c = "sample_raised" -> CloneResult(0, TRUE, fs, vs)
      [] OTHER               -> CloneResult(0, FALSE, fs, vs)

\* clone_voice_from_sample: the body of lines 110-155 inside the try block
\* of lines 109-159, which turns every exception into None
clone_voice_from_sample(fs, vs, j, c) ==
    LET r == clone_voice_from_sample_uncaught(fs, vs, j, c)
    IN IF r.raised THEN CloneResult(0, FALSE, r.fs, r.voices) ELSE r

\* generate_audio_elevenlabs (tts_elevenlabs.py): requests.post without a
\* timeout; the audio is written on a 200, any other status raises
AppTtsOutcomes == AppWithFaults({"ok"}, {"raise", "hang"})

\* The voice that generate_audio_elevenlabs is called with (lines 49-58)
VoiceUsed(voice_id) == IF voice_id # 0 THEN "cloned" ELSE "default"

\* AppTts with the request failing when the voice could not be cloned
AppTts_CloneRequired(j) ==
    /\ j \in DOMAIN appJobs
    /\ appJobs[j].pc = "tts"
    /\ \E c \in CloneOutcomes(j), o \in AppTtsOutcomes :
         LET cl == clone_voice_from_sample(appFiles, voices, j, c)
         IN /\ FaultCount({c, o}) <= appFaults
            /\ appFaults' = appFaults - FaultCount({c, o})
            /\ voices' = cl.voices
            /\ CASE cl.raised \/ c \in CloneFailures ->
                      /\ appJobs' = [AppRaise(j, ErrText("voice cloning failed"))
                                       EXCEPT ![j].clone = c]
                      /\ appFiles' = cl.fs
                 [] o = "hang" ->
                      /\ appJobs' = [appJobs EXCEPT ![j].pc = "blocked",
                                                    ![j].clone = c]
                      /\ appFiles' = cl.fs
                 [] o = "ok" /\ cwd \in outDirs ->
                      /\ appJobs' = [appJobs EXCEPT
                             ![j].pc = "render", ![j].clone = c,
                             ![j].voice = VoiceUsed(cl.voice_id)]
                      /\ appFiles' = Write(cl.fs, cwd, j, "audio", j)
                 [] OTHER ->
                      /\ appJobs' =
                           [AppRaise(j, IF o = "raise"
                                        THEN ErrText("ElevenLabs TTS failed")
                                        ELSE ErrNoFile(j, "audio"))
                              EXCEPT ![j].clone = c]
                      /\ appFiles' = cl.fs
    /\ UNCHANGED <<appToArrive, appRejected, appNext, results, cwd, outDirs,
                   sadtalker_installed>>
    /\ AppFrame

\* main.py lines 43-58: the voice is cloned if a sample was given, then
\* the speech is synthesized with the cloned or the default voice; an
\* exception of either call ends the job (lines 101-103)
AppTts(j) ==
    /\ j \in DOMAIN appJobs
    /\ appJobs[j].pc = "tts"
    /\ \E c \in CloneOutcomes(j), o \in AppTtsOutcomes :
         LET cl == clone_voice_from_sample(appFiles, voices, j, c)
         IN /\ FaultCount({c, o}) <= appFaults
            /\ appFaults' = appFaults - FaultCount({c, o})
            /\ voices' = cl.voices
            /\ CASE cl.raised ->
                      /\ appJobs' = [AppRaise(j, ErrText("voice cloning failed"))
                                       EXCEPT ![j].clone = "raised"]
                      /\ appFiles' = cl.fs
                 [] o = "hang" ->
                      /\ appJobs' = [appJobs EXCEPT ![j].pc = "blocked",
                                                    ![j].clone = c]
                      /\ appFiles' = cl.fs
                 [] o = "ok" /\ cwd \in outDirs ->
                      /\ appJobs' = [appJobs EXCEPT
                             ![j].pc = "render", ![j].clone = c,
                             ![j].voice = VoiceUsed(cl.voice_id)]
                      /\ appFiles' = Write(cl.fs, cwd, j, "audio", j)
                 [] OTHER ->
                      /\ appJobs' =
                           [AppRaise(j, IF o = "raise"
                                        THEN ErrText("ElevenLabs TTS failed")
                                        ELSE ErrNoFile(j, "audio"))
                              EXCEPT ![j].clone = c]
                      /\ appFiles' = cl.fs
    /\ UNCHANGED <<appToArrive, appRejected, appNext, results, cwd, outDirs,
                   sadtalker_installed>>
    /\ AppFrame

\* main.py lines 64-65, after generate_video_with_sadtalker returned
AfterRender(j, gen) ==
    IF gen THEN [appJobs EXCEPT ![j].pc = "upload", ![j].gen = TRUE]
           ELSE [appJobs EXCEPT ![j].pc = "done", ![j].resp = 500,
                                ![j].err = ErrText("Video generation failed")]

\* video_sadtalker.py lines 5-30: without inference.py the placeholder is
\* written to the relative output_path; else results_dir and the absolute
\* paths are resolved in the working directory of that moment (base) and
\* results_dir is created
AppRenderResolve(j) ==
    /\ j \in DOMAIN appJobs
    /\ appJobs[j].pc = "render"
    /\ IF ~sadtalker_installed
       THEN /\ appJobs' = AfterRender(j, cwd \in outDirs)
            /\ appFiles' = IF cwd \in outDirs
                           THEN Write(appFiles, cwd, j, "video", 0)
                           ELSE appFiles
            /\ outDirs' = outDirs
       ELSE /\ appJobs' = [appJobs EXCEPT ![j].pc = "render_chdir",
                                          ![j].base = cwd]
            /\ outDirs' = outDirs \cup {cwd}
            /\ appFiles' = appFiles
    /\ UNCHANGED <<appToArrive, appRejected, appNext, results, voices, cwd,
                   appFaults, sadtalker_installed>>
    /\ AppFrame

\* video_sadtalker.py lines 45-47: old_cwd = os.getcwd() and
\* os.chdir(sadtalker_path), after the prints of lines 27-43
AppRenderChdir(j) ==
    /\ j \in DOMAIN appJobs
    /\ appJobs[j].pc = "render_chdir"
    /\ appJobs' = [appJobs EXCEPT ![j].pc = "render_run", ![j].old_cwd = cwd]
    /\ cwd' = "sadtalker"
    /\ UNCHANGED <<appToArrive, appRejected, appNext, appFiles, results,
                   voices, outDirs, appFaults, sadtalker_installed>>
    /\ AppFrame

\* subprocess.run(inference.py ..., timeout=300).
\*   "ok"            exit 0, one video in results_dir
\*   "ok_two"        exit 0, the result and an intermediate video
\*   "ok_novideo"    exit 0 and no video
\*   "fail"          another exit status
\*   "timeout"       TimeoutExpired
\*   "input_missing" the image or the audio is not at the absolute path
SadTalkerOutcomes(j) ==
    IF /\ Exists(appFiles, appJobs[j].base, j, "image")
       /\ Exists(appFiles, appJobs[j].base, j, "audio")
    THEN {"ok", "ok_two"} \cup AppWithFaults({}, {"ok_novideo", "fail", "timeout"})
    ELSE {"input_missing"}

\* A video that SadTalker left in the results directory of dir d
Rendered(d, j, n) == [dir |-> d, src |-> j, n |-> n]

\* video_sadtalker.py lines 49-52 and 101-107
AppRenderRun(j) ==
    /\ j \in DOMAIN appJobs
    /\ appJobs[j].pc = "render_run"
    /\ \E o \in SadTalkerOutcomes(j) :
         LET d == appJobs[j].base
         IN /\ results' = CASE o = "ok" -> results \cup {Rendered(d, j, 1)}
                            [] o = "ok_two" ->
                                 results \cup {Rendered(d, j, 1), Rendered(d, j, 2)}
                            [] OTHER -> results
            /\ appJobs' = [appJobs EXCEPT ![j].pc =
                              IF o \in {"ok", "ok_two", "ok_novideo"}
                              THEN "render_scan" ELSE "render_finish"]
            /\ appFaults' = appFaults - FaultCount({o})
    /\ UNCHANGED <<appToArrive, appRejected, appNext, appFiles, voices, cwd,
                   outDirs, sadtalker_installed>>
    /\ AppFrame

\* The videos the scan of results_dir can come across first
Candidates(j) == {v \in results : v.dir = appJobs[j].base}

\* video_sadtalker.py lines 56-88: found_video is the first .mp4 that the
\* listing of results_dir gives, in the order os.listdir happens to give
\* (found is the set of that video, empty for None)
AppRenderScan(j) ==
    /\ j \in DOMAIN appJobs
    /\ appJobs[j].pc = "render_scan"
    /\ \E v \in (IF Candidates(j) = {} THEN {{}}
                 ELSE {{c} : c \in Candidates(j)}) :
         appJobs' = [appJobs EXCEPT ![j].pc = "render_finish", ![j].found = v]
    /\ UNCHANGED <<appToArrive, appRejected, appNext, appFiles, results,
                   voices, cwd, outDirs, appFaults, sadtalker_installed>>
    /\ AppFrame

\* video_sadtalker.py lines 90-99 and 101-115: the video that was found is
\* moved to output_path; with none found, or with the video gone and
\* shutil.move raising, the placeholder is written instead
AppRenderFinish(j) ==
    /\ j \in DOMAIN appJobs
    /\ appJobs[j].pc = "render_finish"
    /\ LET found == appJobs[j].found
           d == appJobs[j].base
       IN IF found # {} /\ found \subseteq results
          THEN /\ results' = results \ found
               /\ appFiles' = Write(appFiles, d, j, "video",
                                    (CHOOSE v \in found : TRUE).src)
          ELSE /\ results' = results
               /\ appFiles' = Write(appFiles, d, j, "video", 0)
    /\ appJobs' = [appJobs EXCEPT ![j].pc = "render_exit"]
    /\ UNCHANGED <<appToArrive, appRejected, appNext, voices, cwd, outDirs,
                   appFaults, sadtalker_installed>>
    /\ AppFrame

\* AppRenderExit without the finally clause of lines 110-111
AppRenderExit_NoRestore(j) ==
    /\ j \in DOMAIN appJobs
    /\ appJobs[j].pc = "render_exit"
    /\ cwd' = cwd
    /\ appJobs' = AfterRender(j, TRUE)
    /\ UNCHANGED <<appToArrive, appRejected, appNext, appFiles, results,
                   voices, outDirs, appFaults, sadtalker_installed>>
    /\ AppFrame

\* video_sadtalker.py lines 110-111: finally os.chdir(old_cwd)
AppRenderExit(j) ==
    /\ j \in DOMAIN appJobs
    /\ appJobs[j].pc = "render_exit"
    /\ cwd' = appJobs[j].old_cwd
    /\ appJobs' = AfterRender(j, TRUE)
    /\ UNCHANGED <<appToArrive, appRejected, appNext, appFiles, results,
                   voices, outDirs, appFaults, sadtalker_installed>>
    /\ AppFrame

\* AWSService.upload_video / upload_audio: the URL, or None when open() or
\* upload_fileobj raised
S3Outcomes == AppWithFaults({"ok"}, {"video_failed", "audio_failed", "both_failed"})

\* main.py lines 67-74: both uploads, of the relative paths
AppUpload(j) ==
    /\ j \in DOMAIN appJobs
    /\ appJobs[j].pc = "upload"
    /\ \E o \in S3Outcomes :
         /\ appJobs' = [appJobs EXCEPT
                ![j].pc = "cleanup",
                ![j].s3_video = VideoUploadOk(o) /\ Exists(appFiles, cwd, j, "video"),
                ![j].s3_audio = AudioUploadOk(o) /\ Exists(appFiles, cwd, j, "audio")]
         /\ appFaults' = appFaults - FaultCount({o})
    /\ UNCHANGED <<appToArrive, appRejected, appNext, appFiles, results,
                   voices, cwd, outDirs, sadtalker_installed>>
    /\ AppFrame

\* AppCleanup with the voice of the job deleted at the provider
AppCleanup_DeletesVoice(j) ==
    /\ j \in DOMAIN appJobs
    /\ appJobs[j].pc = "cleanup"
    /\ appFiles' = Remove(appFiles, cwd, j, "image")
    /\ appJobs' = [appJobs EXCEPT ![j].pc = "done", ![j].resp = 200]
    /\ voices' = voices \ {j}
    /\ UNCHANGED <<appToArrive, appRejected, appNext, results, cwd,
                   outDirs, appFaults, sadtalker_installed>>
    /\ AppFrame

\* main.py lines 76-100: the video and the audio are removed if they were
\* uploaded, the image always; then the success body
AppCleanup(j) ==
    /\ j \in DOMAIN appJobs
    /\ appJobs[j].pc = "cleanup"
    /\ LET f1 == IF appJobs[j].s3_video
                 THEN Remove(appFiles, cwd, j, "video") ELSE appFiles
           f2 == IF appJobs[j].s3_audio THEN Remove(f1, cwd, j, "audio") ELSE f1
       IN appFiles' = Remove(f2, cwd, j, "image")
    /\ appJobs' = [appJobs EXCEPT ![j].pc = "done", ![j].resp = 200]
    /\ UNCHANGED <<appToArrive, appRejected, appNext, results, voices, cwd,
                   outDirs, appFaults, sadtalker_installed>>
    /\ AppFrame

\* ------------------------------------------------------------------------
\* DELETE /cleanup-voice/<voice_id> of app/main.py
\* ------------------------------------------------------------------------

\* No job of app/main.py is in flight
AppIdle == \A j \in DOMAIN appJobs : appJobs[j].pc \in {"done", "blocked"}

\* What the call of the provider comes to: an answer with a status, no API
\* key in the environment, an exception of requests, or no answer at all
\* (requests.delete has no timeout)
Answer(code) == [k |-> "status", code |-> code]
NoKey == [k |-> "no_key", code |-> 0]
Raises == [k |-> "raise", code |-> 0]
Hangs == [k |-> "hang", code |-> 0]

\* The provider deletes a voice it has and answers 200, or answers an
\* error; it answers 404 for a voice it does not have
DeleteOutcomes(vs, voice_id) ==
    {NoKey, Raises, Hangs, Answer(401)}
        \cup (IF voice_id \in vs THEN {Answer(200)} ELSE {Answer(404)})

\* cleanup_voice with every failure answered 500
cleanup_voice_Flat(o) ==
    IF o = Answer(200) THEN [status |-> 200, success |-> TRUE]
                       ELSE [status |-> 500, success |-> FALSE]

\* main.py lines 161-184: the status and the "success" of the response
cleanup_voice(o) ==
    CASE o.k \in {"no_key", "raise"} -> [status |-> 500, success |-> FALSE]
      [] o.k = "status" /\ o.code = 200 -> [status |-> 200, success |-> TRUE]
      [] OTHER -> [status |-> o.code, success |-> FALSE]

\* The client of DELETE /cleanup-voice before its first request
NoDelete ==
    [fn |-> "cleanup_voice", left |-> MaxDeletes, voice_id |-> 0,
     provider |-> Hangs, answered |-> FALSE, status |-> 0, success |-> FALSE]

\* One DELETE /cleanup-voice/<voice_id>, from the request to the response,
\* for the voice of a job, sent when the jobs of the run are over (a job
\* and a later DELETE share nothing but the voices of the provider)
CleanupVoice(voice_id) ==
    /\ call.fn = "cleanup_voice"
    /\ call.left > 0
    /\ voice_id \in DOMAIN appJobs
    /\ appToArrive = 0
    /\ AppIdle
    /\ \E o \in DeleteOutcomes(voices, voice_id) :
         LET r == cleanup_voice(o)
         IN /\ call' = [call EXCEPT !.left = @ - 1, !.voice_id = voice_id,
                                    !.provider = o,
                                    !.answered = (o # Hangs),
                                    !.status = IF o = Hangs THEN 0 ELSE r.status,
                                    !.success = (o # Hangs /\ r.success)]
            /\ voices' = IF o = Answer(200) THEN voices \ {voice_id} ELSE voices
    /\ UNCHANGED <<appToArrive, appRejected, appNext, appJobs, appFiles,
                   results, cwd, outDirs, appFaults, sadtalker_installed>>
    /\ UNCHANGED <<svcVars, pool>>

\* ------------------------------------------------------------------------
\* Specifications
\* ------------------------------------------------------------------------

\* The ElevenLabs/SadTalker service after start, with n requests to come
\* and a budget of k collaborator failures
InitApp(n, k) ==
    /\ appToArrive = n
    /\ appRejected = [c \in {400, 500} |-> 0]
    /\ appNext = 1
    /\ appJobs = <<>>
    /\ appFiles = {}
    /\ results = {}
    /\ voices = {}
    /\ cwd = "app"
    /\ outDirs = {"app"}
    /\ appFaults = k
    /\ sadtalker_installed \in (IF n = 0 THEN {FALSE} ELSE BOOLEAN)

\* No function is called on its own
NoCall == [fn |-> "none"]

\* The enhanced service after start, with the request bodies that its
\* clients will send
InitService(bodies) ==
    /\ pool = bodies
    /\ checked = [p \in pool |-> 0]
    /\ validated = 0
    /\ rejected = [c \in {400, 429, 500} |-> 0]
    /\ nextSid = 1
    /\ active_jobs = <<>>
    /\ jobs = <<>>
    /\ files = {}
    /\ s3_available \in BOOLEAN
    /\ reader = IdleReader
    /\ jobsResp = <<>>
    /\ statsResp = 0

\* A few requests, unreliable collaborators, a concurrent GET /jobs
Init ==
    /\ InitService(Payloads)
    /\ toArrive = NumRequests
    /\ faults = MaxFaults
    /\ toRead = MaxReads
    /\ InitApp(0, 0)
    /\ call = NoCall

\* A burst of requests against reliable collaborators
InitAdmission ==
    /\ InitService(Payloads)
    /\ toArrive = BurstRequests
    /\ faults = 0
    /\ toRead = 0
    /\ InitApp(0, 0)
    /\ call = NoCall

\* The ElevenLabs/SadTalker service alone
InitAppService ==
    /\ InitService(Payloads)
    /\ s3_available = FALSE
    /\ toArrive = 0
    /\ faults = 0
    /\ toRead = 0
    /\ InitApp(NumAppJobs, MaxAppFaults)
    /\ call = NoCall

\* The paths that cleanup_temp_files is called with on its own: scratch
\* paths of two sessions
CleanupPaths == {avatar_path(1), audio_path(1), avatar_path(2)}

\* The lists of at most n of these paths
PathLists(n) == UNION {[1..k -> CleanupPaths] : k \in 0..n}

\* The state before the first call: the files that exist and the list
CleanupInput(fs, paths) ==
    [fn |-> "cleanup_temp_files", fs0 |-> fs, paths |-> paths, fs |-> fs,
     calls |-> 0, raised |-> FALSE, after |-> <<>>]

\* Both services idle
InitIdle ==
    /\ InitService(Payloads)
    /\ s3_available = FALSE
    /\ toArrive = 0
    /\ faults = 0
    /\ toRead = 0
    /\ InitApp(0, 0)

\* cleanup_temp_files alone: any files in the scratch directory, any list
InitCleanup ==
    /\ InitIdle
    /\ \E fs \in SUBSET CleanupPaths, paths \in PathLists(MaxPathList) :
         call = CleanupInput(fs, paths)

\* wav2lip_service.cleanup_temp_files(temp_files), once and once again
\* with the same list; after holds the files left behind by each call
CleanupCall ==
    /\ call.fn = "cleanup_temp_files"
    /\ call.calls < 2
    /\ ~call.raised
    /\ LET r == cleanup_temp_files(call.fs, call.paths)
       IN call' = [call EXCEPT !.fs = r.fs, !.calls = @ + 1,
                               !.raised = r.raised,
                               !.after = Append(@, r.fs)]
    /\ UNCHANGED <<svcVars, appVars, pool>>

NextCleanup == CleanupCall

\* The texts with up to MaxPad blanks before and after one of the cores
Padded(cores) ==
    {Repeat(" ", l) \o c \o Repeat(" ", t) :
        l \in 0..MaxPad, t \in 0..MaxPad, c \in cores}

\* Scripts: none, short ones, and ones around the limit, with and without
\* blanks around them; a key that is absent, null or a number
ScriptLengths ==
    {0, 1, MAX_SCRIPT_LENGTH - 1, MAX_SCRIPT_LENGTH, MAX_SCRIPT_LENGTH + 1}
ScriptVals ==
    {Absent, Null, Number(100)}
        \cup {Text(x) : x \in Padded({OkScript.s}
                                       \cup {Repeat("a", n) : n \in ScriptLengths})}

\* Avatar URLs: with either scheme, with another scheme, with none, with
\* the scheme in capitals, with one slash
UrlCores ==
    {<<>>, HttpScheme \o <<"x">>, HttpsScheme \o <<"x">>,
     <<"f", "t", "p", ":", "/", "/", "x">>,
     <<"n", "o", "t", "-", "a", "-", "u", "r", "l">>,
     <<"H", "T", "T", "P", ":", "/", "/", "x">>,
     <<"h", "t", "t", "p", ":", "/", "x">>}
UrlVals == {Absent, Null, Number(100)} \cup {Text(x) : x \in Padded(UrlCores)}

\* Language tags: every text of up to MaxLangLen of these characters
LangChars == {"e", "n", "s", "E", "N", "-", "x"}
LangVals ==
    {Absent, Null, Number(100)}
        \cup {Text(x) : x \in UNION {[1..k -> LangChars] : k \in 0..MaxLangLen}}

\* Speeds, in hundredths: around both limits and far from them
SpeedVals ==
    {Absent, Null, Text(<<"f", "a", "s", "t">>)}
        \cup {Number(n) : n \in {-100, 0, 49, 50, 51, 100, 199, 200, 201, 500}}

\* The request bodies that validate_request is tried with: every script
\* with every avatar URL, and with a good script and a good URL every
\* language, every speed and the voice_options that are no object
Requests ==
    {Body(x, u, NoOptions) : x \in ScriptVals, u \in UrlVals}
        \cup {Body(OkScript, OkUrl, Options(l, Absent)) : l \in LangVals}
        \cup {Body(OkScript, OkUrl, Options(l, sp)) :
                 l \in {Absent, Text(<<"e", "n">>), Text(<<"x", "x">>)},
                 sp \in SpeedVals}
        \cup {Body(OkScript, OkUrl, NullOptions),
              Body(OkScript, OkUrl, TextOptions), ListJson}

\* validate_request alone, on any of these bodies
InitValidate ==
    /\ InitIdle
    /\ \E d \in Requests :
         call = [fn |-> "validate_request", data |-> d, out |-> <<>>]

\* is_valid, error_message = wav2lip_service.validate_request(data)
ValidateCall ==
    /\ call.fn = "validate_request"
    /\ call.out = <<>>
    /\ call' = [call EXCEPT !.out = <<validate_request(call.data)>>]
    /\ UNCHANGED <<svcVars, appVars, pool>>

NextValidate == ValidateCall

\* generate_tts_audio lines 136-137 and 145: the lang that gTTS is given,
\* language.split('-')[0]
tts_lang_code(vo) ==
    SplitFirst(Get(vo.language, Text(<<"e", "n">>)).s, "-")

\* The language of a request on its way through the service: a good
\* script, a good URL and any language
InitLanguage ==
    /\ InitIdle
    /\ \E l \in LangVals :
         call = [fn |-> "language", data |-> Body(OkScript, OkUrl, Options(l, Absent)),
                 out |-> <<>>, lang |-> <<>>]

\* Lines 378-380
LanguageValidate ==
    /\ call.fn = "language"
    /\ call.out = <<>>
    /\ call' = [call EXCEPT !.out = <<validate_request(call.data)>>]
    /\ UNCHANGED <<svcVars, appVars, pool>>

\* Lines 414 and 136-145, for a request that was accepted: gTTS(text=...,
\* lang=lang_code, slow=slow)
LanguageTts ==
    /\ call.fn = "language"
    /\ call.out = <<Accepted>>
    /\ call.lang = <<>>
    /\ call' = [call EXCEPT !.lang = <<tts_lang_code(call.data.voice_options)>>]
    /\ UNCHANGED <<svcVars, appVars, pool>>

NextLanguage == LanguageValidate \/ LanguageTts

\* A URL or a key as its pieces: names, and the separators between them
\* f"https://{bucket}.s3.{region}.amazonaws.com/{s3_key}"
S3Url(bucket, region, s3_key) ==
    <<"https", "://", bucket, ".", "s3", ".", region, ".", "amazonaws", ".",
      "com", "/">> \o s3_key

\* main.py line 337: f"https://lexora-assets.s3.amazonaws.com/{s3_key}"
MockUrl(s3_key) ==
    <<"https", "://", "lexora-assets", ".", "s3", ".", "amazonaws", ".",
      "com", "/">> \o s3_key

\* EnhancedWav2LipService.upload_to_s3 with CONFIG as env: the mock URL
\* when the bucket was not reachable at start, None when upload_file raises
Enhanced_upload_to_s3(avail, up, env, s3_key) ==
    IF ~avail THEN Text(S3Url(env.S3_BUCKET, env.AWS_REGION, s3_key))
    ELSE IF up = "ok" THEN Text(S3Url(env.S3_BUCKET, env.AWS_REGION, s3_key))
    ELSE Null

\* Wav2LipService.upload_to_s3 of main.py with os.environ as env: the mock
\* URL when boto3 or upload_file raises
Wav2Lip_upload_to_s3(up, env, s3_key) ==
    IF up = "ok" THEN Text(S3Url(env.S3_BUCKET, env.AWS_REGION, s3_key))
    ELSE Text(MockUrl(s3_key))

\* str(uuid.uuid4()) of some sessions
SessionIds == {"uuid-a", "uuid-b", "uuid-c"}

\* The keys the two services upload under, for session sid
S3Keys(svc, sid) ==
    IF svc = "enhanced"
    THEN {<<"generated", "/", "videos", "/", "ts", "/", sid, ".", "mp4">>,
          <<"generated", "/", "audio", "/", "ts", "/", sid, ".", "wav">>}
    ELSE {<<"generated", "/", "videos", "/", sid, ".", "mp4">>,
          <<"generated", "/", "audio", "/", sid, ".", "wav">>}

\* The settings of the environment: the defaults, or a bucket and a region
\* of the deployment
S3Envs(svc) ==
    [S3_BUCKET : {"lexora-assets", "school-assets"},
     AWS_REGION : {IF svc = "enhanced" THEN "us-east-1" ELSE "ap-south-1",
                   "eu-west-1"}]

\* upload_to_s3 alone: a service, its environment, a key, whether the
\* bucket answered at start (enhanced service only) and whether
\* upload_file works
UploadInput(svc, avail, up, env, s3_key) ==
    [fn |-> "upload_to_s3", svc |-> svc, avail |-> avail, up |-> up,
     env |-> env, s3_key |-> s3_key, done |-> FALSE, ret |-> Null]

InitUpload ==
    /\ InitIdle
    /\ \E svc \in {"enhanced", "main"}, avail \in BOOLEAN,
          up \in {"ok", "raise"}, sid \in SessionIds :
         /\ svc = "main" => avail
         /\ \E env \in S3Envs(svc), k \in S3Keys(svc, sid) :
              call = UploadInput(svc, avail, up, env, k)

\* wav2lip_service.upload_to_s3(file_path, s3_key)
UploadCall ==
    /\ call.fn = "upload_to_s3"
    /\ ~call.done
    /\ call' = [call EXCEPT
           !.done = TRUE,
           !.ret = IF call.svc = "enhanced"
                   THEN Enhanced_upload_to_s3(call.avail, call.up, call.env,
                                              call.s3_key)
                   ELSE Wav2Lip_upload_to_s3(call.up, call.env, call.s3_key)]
    /\ UNCHANGED <<svcVars, appVars, pool>>

NextUpload == UploadCall

\* The content-length header of a response
NoHeader == [present |-> FALSE, n |-> 0]
Header(n) == [present |-> TRUE, n |-> n]

\* Sizes of the bodies that download_file is given: empty, small, one
\* chunk, and around MAX_FILE_SIZE
BodySizes ==
    {0, 1, CHUNK_SIZE, MAX_FILE_SIZE - 1, MAX_FILE_SIZE}
        \cup {MAX_FILE_SIZE + k * CHUNK_SIZE + 1 : k \in 0..MaxExtraChunks}

\* The header a server sends with a body of size n: none, the size, or
\* less than the size
HeadersFor(n) == {NoHeader, Header(n), Header(n \div 2)}

\* download_file alone: the status of the response, its content-length
\* header and the size of its body; written counts the bytes that f.write
\* was given
DownloadInput(status, header, size) ==
    [fn |-> "download_file", status |-> status, header |-> header,
     size |-> size, pc |-> "request", downloaded_size |-> 0, written |-> 0,
     ret |-> FALSE]

InitDownload ==
    /\ InitIdle
    /\ \E status \in {200, 404}, size \in BodySizes :
         \E header \in HeadersFor(size) :
            call = DownloadInput(status, header, size)

\* The test of the running total inside the loop, without the test
ExceedsLimit_NotTested(downloaded_size) == FALSE

\* Lines 121-122: downloaded_size > CONFIG['MAX_FILE_SIZE']
ExceedsLimit(downloaded_size) == downloaded_size > MAX_FILE_SIZE

\* Lines 104-117: the request, raise_for_status, the test of the
\* content-length header and open(local_path, 'wb'); an exception is caught
\* at lines 127-129 and False is returned
StreamOpen ==
    /\ call.fn = "download_file"
    /\ call.pc = "request"
    /\ call' = IF \/ call.status # 200
                  \/ call.header.present /\ call.header.n > MAX_FILE_SIZE
               THEN [call EXCEPT !.pc = "done", !.ret = FALSE]
               ELSE [call EXCEPT !.pc = "stream"]
    /\ UNCHANGED <<svcVars, appVars, pool>>

\* Lines 119-126: one turn of the loop over iter_content(chunk_size=8192),
\* or its end and return True
StreamChunk ==
    /\ call.fn = "download_file"
    /\ call.pc = "stream"
    /\ LET chunk == Min({CHUNK_SIZE, call.size - call.downloaded_size})
           total == call.downloaded_size + chunk
       IN call' =
            IF chunk = 0 THEN [call EXCEPT !.pc = "done", !.ret = TRUE]
            ELSE IF ExceedsLimit(total)
                 THEN [call EXCEPT !.downloaded_size = total, !.pc = "done",
                                   !.ret = FALSE]
                 ELSE [call EXCEPT !.downloaded_size = total,
                                   !.written = @ + chunk]
    /\ UNCHANGED <<svcVars, appVars, pool>>

NextDownload == StreamOpen \/ StreamChunk

\* The lengths of its script
ScriptSizes == {1, 150, 1500}

\* The duration of the success body: of the enhanced service (line 423),
\* or of app/main.py (line 88: len(script) / 150, with no probe)
Duration(svc, probe, audio, script_len) ==
    IF svc = "enhanced" THEN get_audio_duration(probe, audio)
    ELSE (script_len * 1000) \div 150

\* The duration of a job alone
DurationInput(svc, probe, audio, script_len) ==
    [fn |-> "duration", svc |-> svc, probe |-> probe, audio |-> audio,
     script_len |-> script_len, done |-> FALSE, duration |-> 0]

InitDuration ==
    /\ InitIdle
    /\ \E svc \in {"enhanced", "app"}, probe \in ProbeOutcomes,
          audio \in AudioLengths, n \in ScriptSizes :
         call = DurationInput(svc, probe, audio, n)

DurationCall ==
    /\ call.fn = "duration"
    /\ ~call.done
    /\ call' = [call EXCEPT
           !.done = TRUE,
           !.duration = Duration(call.svc, call.probe, call.audio,
                                 call.script_len)]
    /\ UNCHANGED <<svcVars, appVars, pool>>

NextDuration == DurationCall

\* The decimal digits, and int() of a text of digits
Digits == <<"0", "1", "2", "3", "4", "5", "6", "7", "8", "9">>
DigitValue(c) == (CHOOSE i \in 1..10 : Digits[i] = c) - 1

RECURSIVE int(_)
int(s) ==
    IF s = <<>> THEN 0
    ELSE 10 * int(SubSeq(s, 1, Len(s) - 1)) + DigitValue(s[Len(s)])

\* os.environ.get('MAX_CONCURRENT_JOBS'): not set, or a number
EnvLimits ==
    {Absent, Text(<<"1">>), Text(<<"3">>), Text(<<"5">>), Text(<<"8">>),
     Text(<<"1", "0">>)}

\* production_config.py line 28:
\* int(os.environ.get('MAX_CONCURRENT_JOBS', 5))
ProductionConfig_MAX_CONCURRENT_JOBS(env) ==
    IF env.t = "absent" THEN 5 ELSE int(env.s)

\* enhanced_wav2lip.py line 42: CONFIG['MAX_CONCURRENT_JOBS'] is the literal
\* 5; the module reads neither the variable nor production_config
CONFIG_MAX_CONCURRENT_JOBS(env) == MAX_CONCURRENT_JOBS

\* Line 366: len(active_jobs) >= CONFIG['MAX_CONCURRENT_JOBS']
ServiceBusy(active, env) == active >= CONFIG_MAX_CONCURRENT_JOBS(env)

\* The capacity check alone: the setting of the environment and the size
\* of the registry
AdmissionInput(env, active) ==
    [fn |-> "capacity_check", env |-> env, active |-> active,
     done |-> FALSE, status |-> 0]

InitCapacity ==
    /\ InitIdle
    /\ \E env \in EnvLimits, active \in 0..MaxRegistry :
         call = AdmissionInput(env, active)

\* Lines 365-370: 429 when the service is busy, else the request goes on
CapacityCall ==
    /\ call.fn = "capacity_check"
    /\ ~call.done
    /\ call' = [call EXCEPT
           !.done = TRUE,
           !.status = IF ServiceBusy(call.active, call.env) THEN 429 ELSE 0]
    /\ UNCHANGED <<svcVars, appVars, pool>>

NextCapacity == CapacityCall

\* One request with any of these bodies, or with none, against reliable
\* collaborators
InitValidation ==
    /\ \E d \in Requests \cup {NoJson} : InitService({d})
    /\ toArrive = 1
    /\ faults = 0
    /\ toRead = 0
    /\ InitApp(0, 0)
    /\ call = NoCall

\* The ElevenLabs/SadTalker service with a request at a time
InitAppSolo ==
    /\ InitService(Payloads)
    /\ s3_available = FALSE
    /\ toArrive = 0
    /\ faults = 0
    /\ toRead = 0
    /\ InitApp(NumSoloJobs, MaxAppFaults)
    /\ call = NoCall

NextApp ==
    \/ \E p \in AppPayloads : AppReceive(p)
    \/ \E j \in AppSids : AppDownload(j)
    \/ \E j \in AppSids : AppTts(j)
    \/ \E j \in AppSids : AppRenderResolve(j)
    \/ \E j \in AppSids : AppRenderChdir(j)
    \/ \E j \in AppSids : AppRenderRun(j)
    \/ \E j \in AppSids : AppRenderScan(j)
    \/ \E j \in AppSids : AppRenderFinish(j)
    \/ \E j \in AppSids : AppRenderExit(j)
    \/ \E j \in AppSids : AppUpload(j)
    \/ \E j \in AppSids : AppCleanup(j)

\* app/main.py with a request at a time and a client of DELETE
\* /cleanup-voice
InitVoice ==
    /\ InitService(Payloads)
    /\ s3_available = FALSE
    /\ toArrive = 0
    /\ faults = 0
    /\ toRead = 0
    /\ InitApp(NumSoloJobs, MaxAppFaults)
    /\ call = NoDelete

\* app/main.py with a client that sends a request when the one before it
\* has been answered
NextAppSolo ==
    \/ AppIdle /\ \E p \in AppPayloads : AppReceive(p)
    \/ \E j \in AppSids : AppDownload(j)
    \/ \E j \in AppSids : AppTts(j)
    \/ \E j \in AppSids : AppRenderResolve(j)
    \/ \E j \in AppSids : AppRenderChdir(j)
    \/ \E j \in AppSids : AppRenderRun(j)
    \/ \E j \in AppSids : AppRenderScan(j)
    \/ \E j \in AppSids : AppRenderFinish(j)
    \/ \E j \in AppSids : AppRenderExit(j)
    \/ \E j \in AppSids : AppUpload(j)
    \/ \E j \in AppSids : AppCleanup(j)

NextVoice ==
    \/ NextAppSolo
    \/ \E voice_id \in AppSids : CleanupVoice(voice_id)

NextGenerate ==
    \/ \E p \in pool : CapacityCheck(p)
    \/ \E p \in pool : ParseValidate(p)
    \/ Register
    \/ \E sid \in Sids : Download(sid)
    \/ \E sid \in Sids : Tts(sid)
    \/ \E sid \in Sids : Render(sid)
    \/ \E sid \in Sids : Upload(sid)

Next ==
    \/ NextGenerate
    \/ JobsStart
    \/ JobsNext
    \/ GetStats

Spec == Init /\ [][Next]_vars

SpecAdmission == InitAdmission /\ [][NextGenerate]_vars

SpecApp == InitAppService /\ [][NextApp]_vars

SpecAppSolo == InitAppSolo /\ [][NextAppSolo]_vars

SpecVoice == InitVoice /\ [][NextVoice]_vars

SpecCleanup == InitCleanup /\ [][NextCleanup]_vars

SpecValidate == InitValidate /\ [][NextValidate]_vars

SpecLanguage == InitLanguage /\ [][NextLanguage]_vars

SpecUpload == InitUpload /\ [][NextUpload]_vars

SpecDownload == InitDownload /\ [][NextDownload]_vars

SpecDuration == InitDuration /\ [][NextDuration]_vars

SpecCapacity == InitCapacity /\ [][NextCapacity]_vars

SpecValidation == InitValidation /\ [][NextGenerate]_vars

\* Every admitted job is served by a thread that keeps running
FairSpec ==
    /\ Spec
    /\ \A sid \in Sids :
         WF_vars(Download(sid) \/ Tts(sid) \/ Render(sid) \/ Upload(sid))

\* ------------------------------------------------------------------------
\* Properties of the enhanced service
\* ------------------------------------------------------------------------

Done(sid) == sid \in DOMAIN jobs /\ jobs[sid].pc = "done"

\* C1: the number of entries of the active-job registry never exceeds
\* MAX_CONCURRENT_JOBS.  Violated under SpecAdmission: the check of line 366
\* and the insert of line 394 are separate steps, so more requests than
\* free slots pass the check before any of them is inserted.
C1_RegistryWithinLimit == ActiveCount <= MAX_CONCURRENT_JOBS

\* C2: once the handler of an admitted job has returned its response, 200
\* or 500, the job's session id is not a key of the registry.
C2_AnsweredJobNotRegistered ==
    \A sid \in DOMAIN jobs : jobs[sid].resp # 0 => sid \notin DOMAIN active_jobs

\* C2 witness: one job was answered 200 and another 500
C2_Witness ==
    \E s1, s2 \in DOMAIN jobs : jobs[s1].resp = 200 /\ jobs[s2].resp = 500

\* C3: no file that a job created exists after the job reached a terminal
\* state.  Violated: when tts.save raises after opening temp_audio, the
\* file stays, and it is not in temp_files.
C3_NoScratchFileLeft ==
    \A sid \in DOMAIN jobs :
        jobs[sid].pc = "done" => \A f \in files : f[1] # sid

\* C5: a request that arrives while the registry holds MAX_CONCURRENT_JOBS
\* entries or more is answered 429 whatever its payload: nothing is
\* validated, no session id is generated, the registry and the files stay.
C5_BusyBeforeValidation ==
    [][(toArrive' = toArrive - 1 /\ ActiveCount >= MAX_CONCURRENT_JOBS)
         => /\ rejected'[429] = rejected[429] + 1
            /\ rejected'[400] = rejected[400]
            /\ checked' = checked
            /\ validated' = validated
            /\ nextSid' = nextSid
            /\ active_jobs' = active_jobs
            /\ jobs' = jobs
            /\ files' = files]_vars

\* C5 witness: a request was answered 429 and the registry is full
C5_Witness == rejected[429] > 0 /\ ActiveCount >= MAX_CONCURRENT_JOBS

StepOrder == <<"download", "tts", "render", "upload">>

\* C6: the steps of a job are invoked at most once each, in the order
\* download, TTS, render, upload, each only after the one before reported
\* success; a step that reports failure is the job's last, and the job is
\* answered 500.
C6_StepsInOrder ==
    \A sid \in DOMAIN jobs :
        LET lg == jobs[sid].log
        IN /\ Len(lg) <= Len(StepOrder)
           /\ \A i \in 1..Len(lg) : lg[i].step = StepOrder[i]
           /\ \A i \in 1..(Len(lg) - 1) : lg[i].ret = "ok"
           /\ (Len(lg) > 0 /\ lg[Len(lg)].ret = "failed")
                => (jobs[sid].pc = "done" /\ jobs[sid].resp = 500)
           /\ jobs[sid].resp = 200
                => (Len(lg) = Len(StepOrder) /\ lg[Len(lg)].ret = "ok")

\* C6 witness: a job whose render step failed after download and TTS, and
\* a job whose download failed
C6_Witness ==
    \E s1, s2 \in DOMAIN jobs :
        /\ Len(jobs[s1].log) = 3 /\ jobs[s1].log[3].ret = "failed"
        /\ Len(jobs[s2].log) = 1 /\ jobs[s2].log[1].ret = "failed"
        /\ jobs[s1].resp = 500 /\ jobs[s2].resp = 500

\* C7: every admitted job eventually reaches a terminal state and leaves
\* the registry.  Violated under FairSpec: tts.save has no timeout, so a
\* TTS backend that never answers blocks the job for ever.
C7_AdmittedJobsTerminate ==
    \A sid \in Sids :
        (sid \in DOMAIN jobs) ~> (Done(sid) /\ sid \notin DOMAIN active_jobs)

\* C8: the status of a job's registry entry is 'completed' (all steps
\* succeeded) or 'failed' (a step failed) when the entry is removed.
\* Violated: the status is written once, as 'processing', and the entry is
\* deleted with it.
C8_TerminalStatusBeforeRemoval ==
    \A sid \in DOMAIN jobs :
        jobs[sid].pc = "done"
            => jobs[sid].removed =
                   IF jobs[sid].resp = 200 THEN "completed" ELSE "failed"

\* C9: every GET /jobs and GET /stats is answered 200.  Violated: an insert
\* or a removal between two steps of the iteration of active_jobs.items()
\* raises RuntimeError in get_active_jobs.
C9_ReadsSucceed ==
    /\ \A i \in 1..Len(jobsResp) : jobsResp[i] = 200
    /\ statsResp \in {0, 200}

\* The job sid ends in this step: its cleanup runs
Ends(sid) == sid \in DOMAIN jobs /\ jobs[sid].pc # "done" /\ jobs'[sid].pc = "done"

\* C12: the cleanup of a job removes the paths of that job's temp_files
\* (none of them exists afterwards) and no other file, and the temp_files
\* of two jobs have no path in common, so that no file of another job that
\* is still in flight is removed.
C12_CleanupOwnFilesOnly ==
    [][\A sid \in Sids :
         Ends(sid) =>
            /\ files' \cap Paths(temp_files(sid)) = {}
            /\ (files \ files') \subseteq Paths(temp_files(sid))
            /\ \A other \in DOMAIN jobs \ {sid} :
                 /\ Paths(temp_files(other)) \cap Paths(temp_files(sid)) = {}
                 /\ Paths(temp_files(other)) \cap files
                        \subseteq files']_vars

\* A job has ended after it had downloaded its avatar, while another job,
\* still in flight, has its files in the scratch directory
C12_Witness ==
    \E s1, s2 \in DOMAIN jobs :
        /\ Done(s1)
        /\ jobs[s1].log[1].ret = "ok"
        /\ jobs[s2].pc \in {"tts", "render", "upload"}
        /\ avatar_path(s2) \in files

\* C13: cleanup_temp_files called a second time with the same list raises
\* nothing and leaves the files as the first call left them, and a list of
\* paths that were never created raises nothing and changes no file.
C13_CleanupIdempotent ==
    call.fn = "cleanup_temp_files" =>
        /\ ~call.raised
        /\ call.calls = 2 => call.after[2] = call.after[1]
        /\ (call.calls >= 1 /\ Paths(call.paths) \cap call.fs0 = {})
               => call.after[1] = call.fs0

\* Both calls were made with a list that names a file that existed, a path
\* that was never created, or the same path twice
C13_Witness ==
    /\ call.fn = "cleanup_temp_files"
    /\ call.calls = 2
    /\ Len(call.paths) = 2
    /\ \/ /\ call.paths[1] \in call.fs0
          /\ call.paths[2] \notin call.fs0
       \/ /\ call.paths[1] = call.paths[2]
          /\ call.paths[1] \in call.fs0

\* The request with body d has been answered before a job existed for it
AnsweredEarly(d) == toArrive = 0 /\ checked[d] = 0 /\ validated = 0 /\ jobs = <<>>

\* No session id was made, nothing was registered, no file was written
NothingStarted ==
    nextSid = 1 /\ jobs = <<>> /\ active_jobs = <<>> /\ files = {}

\* The script of body d is missing, empty or all blanks
NoScript(d) ==
    /\ d.t = "obj"
    /\ \/ d.script.t = "absent"
       \/ /\ d.script.t = "str"
          /\ \A i \in 1..Len(d.script.s) : d.script.s[i] = " "

\* C14: a request below capacity whose script is missing, empty or blank is
\* answered 400 before any download, session id, registry entry or scratch
\* file.  Violated: avatar_url is stripped before the script is looked at,
\* and the AttributeError of an avatar_url that is no text is answered 500.
C14_NoScriptIs400 ==
    \A d \in pool :
        NoScript(d) =>
            /\ NothingStarted
            /\ rejected[429] = 0 /\ rejected[500] = 0
            /\ AnsweredEarly(d) => rejected[400] = 1

\* The text u begins with http:// or https://
HasHttpScheme(u) ==
    \E k \in {7, 8} :
        Len(u) >= k /\ SubSeq(u, 1, k) \in {HttpScheme, HttpsScheme}

\* The part of a language tag before its first '-'
PrimarySubtag(l) ==
    CHOOSE x \in {SubSeq(l, 1, k) : k \in 0..Len(l)} :
        /\ \A i \in 1..Len(x) : x[i] # "-"
        /\ Len(x) = Len(l) \/ l[Len(x) + 1] = "-"

\* The texts a and b differ in the case of their letters at most
SameIgnoringCase(a, b) ==
    Len(a) = Len(b) /\ \A i \in 1..Len(a) : Lower(<<a[i]>>) = Lower(<<b[i]>>)

\* The language tag l names a supported language
Supported(l) ==
    \E c \in SUPPORTED_LANGUAGES : SameIgnoringCase(PrimarySubtag(l), c)

\* Body d has one of the bad shapes or ranges: script missing or no text,
\* avatar URL without HTTP scheme, voice_options no object, language not
\* supported, speed no number or out of range
BadShape(d) ==
    /\ d.t = "obj"
    /\ \/ d.script.t # "str"
       \/ d.avatar_url.t = "str" /\ ~HasHttpScheme(Strip(d.avatar_url.s))
       \/ d.voice_options.t \notin {"obj", "absent"}
       \/ /\ d.voice_options.language.t = "str"
          /\ ~Supported(d.voice_options.language.s)
       \/ d.voice_options.speed.t \notin {"num", "absent"}
       \/ /\ d.voice_options.speed.t = "num"
          /\ \/ d.voice_options.speed.n < MIN_VOICE_SPEED
             \/ d.voice_options.speed.n > MAX_VOICE_SPEED

\* C15: a payload of bad shape or range is answered 400; 500 is answered
\* for the failure of a pipeline stage only.  Violated: a script that is
\* no text, a speed that is no number and voice_options that are no object
\* raise AttributeError or TypeError in validate_request, which the handler
\* answers 500.
C15_BadInputIs400 ==
    \A d \in pool :
        BadShape(d) =>
            /\ rejected[500] = 0
            /\ AnsweredEarly(d) => rejected[400] = 1

\* The outcome of the call of validate_request on its own
Validated == call.fn = "validate_request" /\ call.out # <<>>

\* All fields of body d but the speed are valid
ValidButSpeed(d) ==
    /\ d.t = "obj" /\ d.script = OkScript /\ d.avatar_url = OkUrl
    /\ d.voice_options.t = "obj"
    /\ d.voice_options.language \in {Absent, Text(<<"e", "n">>)}

\* C16: validate_request accepts no request whose speed is a number below
\* 0.5 or above 2.0, rejects it when all other fields are valid, and
\* accepts the speeds 0.5 and 2.0 and a request without speed, all other
\* fields being valid.
C16_SpeedRange ==
    Validated =>
        LET d  == call.data
            sp == d.voice_options.speed
            r  == call.out[1]
        IN /\ (/\ d.t = "obj" /\ d.voice_options.t = "obj" /\ sp.t = "num"
               /\ (sp.n < 50 \/ sp.n > 200))
                 => /\ r.ret # "valid"
                    /\ ValidButSpeed(d) => r.ret = "invalid"
           /\ (/\ ValidButSpeed(d)
               /\ sp \in {Absent, Number(50), Number(200)}) => r = Accepted

\* validate_request has accepted a request with one of the limits as speed
C16_Witness ==
    /\ Validated
    /\ ValidButSpeed(call.data)
    /\ call.data.voice_options.speed \in {Number(50), Number(200)}
    /\ call.out[1] = Accepted

\* All fields of body d but the language are valid
ValidButLanguage(d) ==
    /\ d.t = "obj" /\ d.script = OkScript /\ d.avatar_url = OkUrl
    /\ d.voice_options.t = "obj"
    /\ d.voice_options.speed = Absent

\* C17: validate_request accepts no request whose language has a primary
\* subtag (the part before the first '-', letter case ignored) outside
\* SUPPORTED_LANGUAGES, and accepts a language whose primary subtag is in
\* it in any letter case, the other fields being valid.
C17_LanguageSubtag ==
    (Validated /\ call.data.t = "obj" /\ call.data.voice_options.t = "obj"
               /\ call.data.voice_options.language.t = "str") =>
        LET d == call.data
            l == d.voice_options.language.s
            r == call.out[1]
        IN /\ ~Supported(l) => r.ret # "valid"
           /\ (~Supported(l) /\ ValidButLanguage(d)) => r.ret = "invalid"
           /\ (Supported(l) /\ ValidButLanguage(d)) => r = Accepted

\* validate_request has accepted a language written with capitals, and one
\* with a second subtag
C17_Witness ==
    /\ Validated
    /\ ValidButLanguage(call.data)
    /\ call.data.voice_options.language
           \in {Text(<<"E", "N">>), Text(<<"e", "s", "-">>)}
    /\ call.out[1] = Accepted

\* The answer of validate_request to a script over the limit
TooLongAnswer == Rejected("Script too long (max %d characters)", MAX_SCRIPT_LENGTH)

\* All fields of body d but the script are valid
ValidButScript(d) ==
    d.t = "obj" /\ d.avatar_url = OkUrl /\ d.voice_options = NoOptions

\* C18, as stated: a script of more than MAX_SCRIPT_LENGTH characters is
\* rejected with the message that names the limit (avatar_url being a text
\* or absent), and a script of exactly MAX_SCRIPT_LENGTH characters is
\* accepted.  Violated: the length is that
\* of the script without its leading and trailing blanks.
C18_LengthOfScriptAsSent ==
    (Validated /\ call.data.t = "obj" /\ call.data.script.t = "str"
               /\ call.data.avatar_url.t \in {"str", "absent"}) =>
        LET d == call.data
            r == call.out[1]
        IN /\ Len(d.script.s) > MAX_SCRIPT_LENGTH => r = TooLongAnswer
           /\ (Len(d.script.s) = MAX_SCRIPT_LENGTH /\ ValidButScript(d))
                 => r = Accepted

\* C18, amended: validate_request measures the script without its leading
\* and trailing blanks.  It accepts no request whose stripped script has
\* more than MAX_SCRIPT_LENGTH characters, every rejection it returns for
\* one carries the message that names the limit, it does return one when
\* avatar_url is a text or absent, and it accepts a stripped script of
\* exactly MAX_SCRIPT_LENGTH characters, the other fields being valid.
C18_LengthOfStrippedScript ==
    (Validated /\ call.data.t = "obj" /\ call.data.script.t = "str") =>
        LET d == call.data
            n == Len(Strip(d.script.s))
            r == call.out[1]
        IN /\ n > MAX_SCRIPT_LENGTH =>
                /\ r.ret # "valid"
                /\ r.ret = "invalid" => r = TooLongAnswer
                /\ d.avatar_url.t \in {"str", "absent"} => r.ret = "invalid"
           /\ (n = MAX_SCRIPT_LENGTH /\ ValidButScript(d)) => r = Accepted

\* validate_request was given a script at the limit with blanks around it
\* and accepted it, or one over the limit and rejected it
C18_Witness ==
    /\ Validated
    /\ call.data.script.t = "str"
    /\ \/ /\ Len(Strip(call.data.script.s)) = MAX_SCRIPT_LENGTH
          /\ Len(call.data.script.s) > MAX_SCRIPT_LENGTH
          /\ call.out[1] = Accepted
       \/ /\ Len(Strip(call.data.script.s)) > MAX_SCRIPT_LENGTH
          /\ call.out[1] = TooLongAnswer

\* The request with body d was turned down and no download was attempted
TurnedDown(d) ==
    /\ NothingStarted
    /\ validated = 0
    /\ rejected[429] = 0
    /\ AnsweredEarly(d) =>
          /\ rejected[400] + rejected[500] = 1
          /\ d.script.t \in {"str", "absent"} => rejected[400] = 1

RenderEntries(sid) ==
    {jobs[sid].log[i] : i \in {k \in 1..Len(jobs[sid].log) :
                                  jobs[sid].log[k].step = "render"}}

\* Job j of app/main.py has been through its render step
AppRendered(j) ==
    /\ appJobs[j].voice # "none"
    /\ appJobs[j].pc \in {"upload", "cleanup", "done"}

\* C23: with the rendering engine absent the render step still reports
\* success, with a fallback video written: in app/main.py without
\* inference.py, in the enhanced service without ffmpeg.  Violated in the
\* enhanced service: subprocess.run raises, generate_enhanced_video
\* returns False and the job is answered 500.
C23_FallbackWhenEngineAbsent ==
    /\ \A sid \in DOMAIN jobs :
         \A e \in RenderEntries(sid) : e.cause = "absent" => e.ret = "ok"
    /\ \A j \in DOMAIN appJobs :
         (~sadtalker_installed /\ AppRendered(j)) => appJobs[j].gen

\* C24: when the render step ran into its timeout, a video file is at the
\* output path when the step returns.  Violated in the enhanced service:
\* on TimeoutExpired generate_enhanced_video returns False and writes
\* nothing.
C24_VideoAfterRenderTimeout ==
    /\ \A sid \in DOMAIN jobs :
         \A e \in RenderEntries(sid) :
            e.cause \in {"timeout", "timeout_partial"}
               => video_path(sid) \in generate_enhanced_video({}, sid, e.cause).fs
    /\ \A j \in DOMAIN appJobs :
         (sadtalker_installed /\ appJobs[j].pc \in {"render_exit", "upload"})
            => Exists(appFiles, appJobs[j].base, j, "video")

\* C25: a success body comes from two completed uploads, and a failed
\* upload answers 500 with no success body.  Violated in app/main.py: when
\* upload_video or upload_audio returned None the local path is put in the
\* body and the answer is 200.
C25_SuccessOnlyAfterPublish ==
    /\ \A sid \in DOMAIN jobs :
         /\ jobs[sid].resp = 200
               => /\ jobs[sid].body.video_url # "none"
                  /\ jobs[sid].body.audio_url # "none"
         /\ jobs[sid].resp = 500 => jobs[sid].body = NoBody
    /\ \A j \in DOMAIN appJobs :
         (appJobs[j].pc = "done" /\ appJobs[j].resp = 200)
            => appJobs[j].s3_video /\ appJobs[j].s3_audio

\* The host of a URL: its pieces between "://" and the first "/" after it
UrlHost(u) ==
    LET rest == SubSeq(u, 3, Len(u)) IN SplitFirst(rest, "/")

\* The path of a URL: its pieces after the host
UrlPath(u) == SubSeq(u, 3 + Len(UrlHost(u)), Len(u))

\* C26: when the bucket was not reachable at start or upload_file raises,
\* upload_to_s3 returns a URL with the host (bucket and region) and the
\* path of the URL that a successful upload of the same key returns.
\* Violated in main.py, whose mock URL has a fixed bucket and no region,
\* and in the enhanced service when upload_file raises after a good start.
C26_MockUrlHasShapeOfRealUrl ==
    (call.fn = "upload_to_s3" /\ call.done /\ (~call.avail \/ call.up # "ok"))
       => LET real == S3Url(call.env.S3_BUCKET, call.env.AWS_REGION, call.s3_key)
          IN /\ call.ret.t = "str"
             /\ UrlHost(call.ret.s) = UrlHost(real)
             /\ UrlPath(call.ret.s) = UrlPath(real)

\* C28: download_file never gives f.write more than MAX_FILE_SIZE bytes in
\* all; the call is over, with False, in the turn of the loop in which the
\* bytes received come to more than MAX_FILE_SIZE, whatever the
\* content-length header said
C28_DownloadBounded ==
    call.fn = "download_file"
       => /\ call.written <= 100 * 1024 * 1024
          /\ call.downloaded_size > 100 * 1024 * 1024
                => call.pc = "done" /\ ~call.ret
          /\ (call.pc = "done" /\ call.size > 100 * 1024 * 1024) => ~call.ret

\* a body larger than the limit, announced as smaller or not announced, was
\* turned down in the middle of the stream
C28_Witness ==
    /\ call.fn = "download_file"
    /\ call.pc = "done"
    /\ ~call.ret
    /\ call.status = 200
    /\ ~call.header.present \/ call.header.n < call.size
    /\ call.written > 0
    /\ call.downloaded_size > MAX_FILE_SIZE

\* Estimates of a duration from the length of a script at 150 characters
\* a minute, in thousandths: of minutes, or of seconds
ScriptEstimates(n) == {(n * 1000) \div 150, (n * 60 * 1000) \div 150}

\* C29: the duration of a job is the probed length of its audio when the
\* probe gave one, and an estimate from the length of the script when it
\* gave none.  Violated in the enhanced service, whose duration without a
\* probe is 5.0 whatever the script, and in app/main.py, whose duration
\* is len(script) / 150 whatever the audio.
C29_ProbedDurationOrEstimate ==
    (call.fn = "duration" /\ call.done)
       => IF call.probe = "ok"
          THEN call.duration = call.audio
          ELSE call.duration \in ScriptEstimates(call.script_len)

ReadStep ==
    \/ reader' # reader
    \/ toRead' # toRead
    \/ jobsResp' # jobsResp
    \/ statsResp' # statsResp

\* GET /jobs is answered in this step
JobsAnswered == Len(jobsResp') = Len(jobsResp) + 1

\* C33: the reads leave the registry as it is, and GET /jobs answers with
\* the session ids that are the keys of the registry when it answers.
\* Violated: the loop of get_active_jobs ends with a RuntimeError, and the
\* request with a 500 and no list, when a job was inserted or removed
\* during the loop.
C33_ReadsListRegistry ==
    [][/\ ReadStep => active_jobs' = active_jobs
       /\ JobsAnswered
            => /\ jobsResp'[Len(jobsResp')] = 200
               /\ reader.snap = DOMAIN active_jobs]_vars

\* C34: a request is turned down as busy exactly when the registry holds
\* as many jobs as the MAX_CONCURRENT_JOBS of the environment says.
\* Violated: the limit of the enhanced service is the literal 5.
C34_LimitIsConfiguredValue ==
    (call.fn = "capacity_check" /\ call.done)
       => (call.status = 429
              <=> call.active >= ProductionConfig_MAX_CONCURRENT_JOBS(call.env))

\* C35: a job is at its render step, which is where it is after
\* generate_tts_audio returned True, only with its audio file written.
\* Violated: the result of _adjust_audio_speed and _convert_audio_format
\* is not looked at, so True is returned without the file.
C35_SynthesisTrueMeansAudio ==
    \A sid \in DOMAIN jobs :
       jobs[sid].pc = "render" => audio_path(sid) \in files

\* C36: the keys of the registry are the session ids of the jobs that were
\* inserted and have not been answered; with no such job it is empty
C36_RegistryIsJobsInFlight ==
    /\ DOMAIN active_jobs = {sid \in DOMAIN jobs : jobs[sid].resp = 0}
    /\ (\A sid \in DOMAIN jobs : jobs[sid].resp # 0) => ActiveCount = 0

\* a job is registered and being worked on after another job failed and
\* was answered 500
C36_Witness ==
    /\ \E sid \in DOMAIN jobs :
         jobs[sid].resp = 0 /\ DOMAIN active_jobs = {sid}
    /\ \E sid \in DOMAIN jobs : jobs[sid].resp = 500

\* C37: the language code that gTTS is given for an accepted request is
\* the lower-cased primary subtag that validate_request looked up.
\* Violated: generate_tts_audio splits the tag and does not lower-case it.
C37_TtsGetsValidatedCode ==
    (call.fn = "language" /\ call.lang # <<>>)
       => LET l == Get(call.data.voice_options.language, Text(<<"e", "n">>)).s
          IN /\ call.lang[1] = lang_code(l)
             /\ call.lang[1] \in SUPPORTED_LANGUAGES

\* ------------------------------------------------------------------------
\* Properties of the ElevenLabs/SadTalker service
\* ------------------------------------------------------------------------

AppScratch == {"image", "audio", "video"}

\* C4: every scratch file of a job of app/main.py (image, audio, video) is
\* deleted when the job ends.  Violated: the 500 answers remove nothing, and
\* the success path keeps a file whose upload failed.
C4_AppScratchDeleted ==
    \A j \in DOMAIN appJobs :
        appJobs[j].pc = "done"
            => ~\E f \in appFiles : f.job = j /\ f.kind \in AppScratch

\* C10: the video at a job's output path was rendered from that job's own
\* image and audio (or is the placeholder).  Violated: all jobs share one
\* results directory, and the scan takes the first video it comes across.
C10_OwnVideo ==
    \A f \in appFiles : (f.kind = "video" /\ f.src # 0) => f.src = f.job

\* The positions of a job of app/main.py inside generate_video_with_sadtalker
\* after its os.chdir, and the positions at which a job is about to read or
\* write a relative path under static/generated
InsideRender == {"render_run", "render_scan", "render_finish", "render_exit"}
AtRelativePath == {"download", "tts", "render", "upload", "cleanup"}

\* C11: while one job of app/main.py is inside generate_video_with_sadtalker,
\* the relative scratch paths of another job resolve as they do when that
\* job runs alone, against the directory the service was started in.
\* Violated: os.chdir(sadtalker_path) changes the working directory of the
\* whole process until the finally branch restores it.
C11_RenderKeepsWorkingDirectory ==
    \A a, b \in DOMAIN appJobs :
        (/\ a # b
         /\ appJobs[a].pc \in InsideRender
         /\ appJobs[b].pc \in AtRelativePath) => cwd = "app"

\* The fetch of the avatar failed for job j of app/main.py
AppFetchFailed(j) == appJobs[j].avatar \in {"http_error", "raise"}

\* C20: in both services a job whose avatar fetch failed (connection
\* error, timeout, error status) is answered 500, and synthesis, rendering
\* and publishing are not invoked for it.  Violated in app/main.py: the
\* status of the response is not looked at, so the body of an error
\* response is written as the image and the job goes on.
C20_FetchFailureIsFatal ==
    /\ \A sid \in DOMAIN jobs :
         (Len(jobs[sid].log) >= 1 /\ jobs[sid].log[1].ret = "failed")
            => /\ Len(jobs[sid].log) = 1
               /\ jobs[sid].pc = "done"
               /\ jobs[sid].resp = 500
    /\ \A j \in DOMAIN appJobs :
         AppFetchFailed(j) => appJobs[j].pc = "done" /\ appJobs[j].resp = 500

\* C21: a job of app/main.py whose voice could not be cloned, with nothing
\* else failing in that step, has its speech synthesized with the default
\* voice and goes on to the render step.
C21_CloneFailureUsesDefaultVoice ==
    [][\A j \in DOMAIN appJobs :
         (/\ appJobs[j].pc = "tts"
          /\ appJobs'[j].pc # "tts"
          /\ appJobs'[j].clone \in CloneFailures
          /\ appFaults' = appFaults - 1
          /\ cwd \in outDirs)
            => /\ appJobs'[j].pc = "render"
               /\ appJobs'[j].voice = "default"]_vars

\* A job whose voice could not be cloned has been answered 200
C21_Witness ==
    \E j \in DOMAIN appJobs :
        /\ appJobs[j].clone \in CloneFailures
        /\ appJobs[j].voice = "default"
        /\ appJobs[j].pc = "done"
        /\ appJobs[j].resp = 200

\* C22: clone_voice_from_sample never raises; it gives None, so that the
\* default voice is used, whenever the key is missing, the download of the
\* sample or the upload to the provider failed or an exception occurred,
\* and a voice id only when the provider answered 200.
C22_CloneNeverRaises ==
    \A j \in DOMAIN appJobs :
        /\ appJobs[j].clone # "raised"
        /\ (appJobs[j].clone \in CloneFailures /\ appJobs[j].voice # "none")
              => appJobs[j].voice = "default"
        /\ appJobs[j].voice = "cloned" => appJobs[j].clone = "cloned"

\* An exception inside clone_voice_from_sample was followed by the
\* synthesis with the default voice
C22_Witness ==
    \E j \in DOMAIN appJobs :
        /\ appJobs[j].clone \in {"sample_raised", "post_raised"}
        /\ appJobs[j].voice = "default"

\* enhanced_wav2lip.py lines 410-433 and 472-473: the error of the 500 that
\* ends job sid, the text raised after the step that failed
ErrorBody(sid) ==
    LET last == jobs[sid].log[Len(jobs[sid].log)]
    IN ErrText(CASE last.step = "download" -> "Failed to download avatar image"
                 [] last.step = "tts" -> "Failed to generate TTS audio"
                 [] last.step = "render" -> "Failed to generate video"
                 [] OTHER -> "Failed to upload generated files")

\* C27: the error of a response names no scratch path of the job, so that
\* it is the same for two runs that differ in their scratch paths only.
\* Violated in app/main.py: when open(image_path) or the open of the audio
\* file raises, which it does while a render of another request has the
\* working directory changed, str(e) carries the path with the session id.
C27_ErrorBodyNamesNoPath ==
    /\ \A sid \in DOMAIN jobs :
         jobs[sid].resp = 500 => ErrorBody(sid).path = NoPath
    /\ \A j \in DOMAIN appJobs :
         appJobs[j].resp = 500 => appJobs[j].err.path = NoPath

\* C31: DELETE /cleanup-voice answers 200 with success true exactly when
\* the provider answered 200, the status of the provider when it answered
\* another one, and 500 when there is no API key or the call raised
C31_CleanupVoiceStatus ==
    (call.fn = "cleanup_voice" /\ call.answered)
       => /\ (call.status = 200 /\ call.success)
                <=> (call.provider.k = "status" /\ call.provider.code = 200)
          /\ call.success => call.status = 200
          /\ (call.provider.k = "status" /\ call.provider.code # 200)
                => call.status = call.provider.code
          /\ call.provider.k \in {"no_key", "raise"} => call.status = 500

\* the DELETE of a voice that was never cloned was answered with the 404
\* of the provider
C31_Witness ==
    /\ call.fn = "cleanup_voice"
    /\ call.answered
    /\ call.provider = Answer(404)
    /\ call.status = 404
    /\ ~call.success
    /\ \E j \in DOMAIN appJobs :
         appJobs[j].clone # "cloned" /\ call.voice_id = j

\* C32: a voice leaves the provider only in a DELETE /cleanup-voice for it
\* that the provider answered 200; no step of generate_video removes one,
\* so the voice that a job cloned is there when the job has ended
C32_VoiceOutlivesJob ==
    [][\A v \in voices \ voices' :
          /\ call' # call
          /\ call'.fn = "cleanup_voice"
          /\ call'.voice_id = v
          /\ call'.provider.k = "status" /\ call'.provider.code = 200
          /\ appJobs' = appJobs]_vars

\* the job that cloned a voice has been answered and the voice is there
C32_Witness ==
    \E j \in DOMAIN appJobs :
       /\ appJobs[j].pc = "done"
       /\ appJobs[j].resp = 200
       /\ appJobs[j].clone = "cloned"
       /\ j \in voices

\* main.py lines 72-73: the URL of the success body, of the storage when
\* the upload gave one, else of the local file under the directory of the
\* application
final_url(s3_url_given) == IF s3_url_given THEN "s3" ELSE "local"

\* C38: the video and the audio of a success response are there: a URL of
\* the storage was given by an upload that succeeded, and the file of a
\* local URL has not been removed.  Violated: after a render of another
\* request changed the working directory, the file is not where the local
\* URL says.
C38_SuccessUrlsHaveArtifacts ==
    \A j \in DOMAIN appJobs :
       (appJobs[j].pc = "done" /\ appJobs[j].resp = 200)
          => /\ final_url(appJobs[j].s3_video) = "local"
                   => Exists(appFiles, "app", j, "video")
             /\ final_url(appJobs[j].s3_audio) = "local"
                   => Exists(appFiles, "app", j, "audio")

\* The outcomes of clone_voice_from_sample that come after the temporary
\* file of lines 122-124 was written
CloneAfterTempFile == {"cloned", "rejected", "post_raised"}

\* C39: once clone_voice_from_sample has returned after writing its
\* temporary voice sample, that file is gone.  Violated: os.unlink of line
\* 145 is not reached when requests.post of line 142 raises.
C39_TempSampleRemoved ==
    \A j \in DOMAIN appJobs :
       appJobs[j].clone \in CloneAfterTempFile
          => ~\E f \in appFiles : f.kind = "sample" /\ f.job = j

\* The positions of a request inside generate_video_with_sadtalker
InRender == {"render", "render_chdir", "render_run", "render_scan",
             "render_finish", "render_exit"}

\* The working directory at the time generate_video_with_sadtalker was
\* called by request j, which is inside the call
CwdAtCall(j) == IF appJobs[j].pc = "render" THEN cwd ELSE appJobs[j].base

\* C40: with one request at a time, the step with which
\* generate_video_with_sadtalker returns leaves the working directory of
\* the process as it was when the function was called.
C40_RenderRestoresCwd ==
    [][\A j \in DOMAIN appJobs :
         (appJobs[j].pc \in InRender /\ appJobs'[j].pc \notin InRender)
            => cwd' = CwdAtCall(j)]_vars

\* A render that changed the directory, ended with the placeholder after
\* SadTalker failed or timed out, and has returned
C40_Witness ==
    \E j \in DOMAIN appJobs :
       /\ appJobs[j].pc = "upload"
       /\ appJobs[j].old_cwd = "app"
       /\ cwd = "app"
       /\ \E f \in appFiles : f.kind = "video" /\ f.job = j /\ f.src = 0

====
